---- MODULE Spec2Model ----
(***************************************************************************)
(* Wine resolution core of wineapp-v3 (backend/src/wines/service.py,       *)
(* backend/src/crawler/wine_searcher.py, backend/src/crawler/              *)
(* firecrawl_api.py): local catalog matcher, external source client with   *)
(* its two page caches, fusion / alias bookkeeping and the search_wine     *)
(* orchestrator.                                                           *)
(*                                                                         *)
(* Text is modelled as sequences of one-character strings, Optional[T] as  *)
(* the empty sequence (None) or a one-element sequence <<x>>.              *)
(***************************************************************************)
EXTENDS Integers, Sequences, FiniteSets, TLC

----------------------------------------------------------------------------
(* Optional values *)

NoneV == <<>>

Some(x) == <<x>>

IsNone(o) == o = <<>>

Val(o) == o[1]

----------------------------------------------------------------------------
(* Text helpers *)

Range(s) == {s[i] : i \in 1..Len(s)}

DigitChars == <<"0", "1", "2", "3", "4", "5", "6", "7", "8", "9">>

IsDigit(c) == c \in Range(DigitChars)

IsSpace(c) == c = " "

\* str(n) for a natural number n
RECURSIVE StrOfNat(_)
StrOfNat(n) ==
    IF n < 10 THEN <<DigitChars[n + 1]>>
    ELSE StrOfNat(n \div 10) \o <<DigitChars[(n % 10) + 1]>>

\* lower-casing over the letters the model uses
Lower(c) ==
    CASE c = "A" -> "a"
      [] c = "B" -> "b"
      [] OTHER -> c

\* t occurs in s at position i (1-based)
MatchesAt(s, t, i) ==
    /\ i + Len(t) - 1 <= Len(s)
    /\ \A j \in 1..Len(t) : s[i + j - 1] = t[j]

\* Python `t in s` for strings
Contains(s, t) == \E i \in 1..(Len(s) + 1) : MatchesAt(s, t, i)

\* Python s.replace(t, "") for a non-empty t: leftmost non-overlapping matches
RECURSIVE RemoveAll(_, _)
RemoveAll(s, t) ==
    IF s = <<>> THEN <<>>
    ELSE IF MatchesAt(s, t, 1) THEN RemoveAll(SubSeq(s, Len(t) + 1, Len(s)), t)
    ELSE <<Head(s)>> \o RemoveAll(Tail(s), t)

RECURSIVE LStrip(_)
LStrip(s) == IF s # <<>> /\ IsSpace(Head(s)) THEN LStrip(Tail(s)) ELSE s

RECURSIVE RStrip(_)
RStrip(s) ==
    IF s # <<>> /\ IsSpace(s[Len(s)]) THEN RStrip(SubSeq(s, 1, Len(s) - 1)) ELSE s

\* Python s.strip()
Strip(s) == RStrip(LStrip(s))

\* SQL ILIKE: % matches any run, _ any one character, letters case-insensitively
RECURSIVE ILike(_, _)
ILike(s, p) ==
    IF p = <<>> THEN s = <<>>
    ELSE IF Head(p) = "%" THEN
        \/ ILike(s, Tail(p))
        \/ s # <<>> /\ ILike(Tail(s), p)
    ELSE IF s = <<>> THEN FALSE
    ELSE IF Head(p) = "_" THEN ILike(Tail(s), Tail(p))
    ELSE Lower(Head(s)) = Lower(Head(p)) /\ ILike(Tail(s), Tail(p))

----------------------------------------------------------------------------
(* URL composition *)

UrlPrefix == "https://www.wine-searcher.com/find/"

UrlSuffix == "/-/ndbipe?Xsort_order=p&Xcurrencycode=USD&Xsavecurrency=Y"

\* re.search(r"(\d{4})", s): position of the first run of four digits, 0 if none
FirstYearPos(s) ==
    LET hits == {i \in 1..Len(s) :
                    /\ i + 3 <= Len(s)
                    /\ \A j \in 0..3 : IsDigit(s[i + j])}
    IN IF hits = {} THEN 0 ELSE CHOOSE i \in hits : \A k \in hits : i <= k

\* re.sub(r"(\d{4})", "", s): every non-overlapping run of four digits removed
RECURSIVE RemoveYears(_)
RemoveYears(s) ==
    IF s = <<>> THEN <<>>
    ELSE IF FirstYearPos(s) = 1 THEN RemoveYears(SubSeq(s, 5, Len(s)))
    ELSE <<Head(s)>> \o RemoveYears(Tail(s))

\* re.sub(r"[,\.\(\)&]", " ", s)
PunctToSpace(s) ==
    [i \in 1..Len(s) |-> IF s[i] \in {",", ".", "(", ")", "&"} THEN " " ELSE s[i]]

\* re.sub(r"\s+", "-", s) followed by re.sub(r"-+", "-", s)
RECURSIVE Hyphenate(_)
Hyphenate(s) ==
    IF s = <<>> THEN <<>>
    ELSE LET c == IF IsSpace(Head(s)) THEN "-" ELSE Head(s)
             rest == Hyphenate(Tail(s))
         IN IF c = "-" /\ rest # <<>> /\ Head(rest) = "-" THEN rest
            ELSE <<c>> \o rest

\* `not vintage` for an Optional[int]
VintageFalsy(vintage) == IsNone(vintage) \/ Val(vintage) = 0

\* the vintage text compose_search_url ends up with ("" when none is known)
ComposeVintage(keyword, vintage) ==
    IF ~VintageFalsy(vintage) THEN StrOfNat(Val(vintage))
    ELSE IF FirstYearPos(keyword) # 0
         THEN SubSeq(keyword, FirstYearPos(keyword), FirstYearPos(keyword) + 3)
         ELSE <<>>

\* the keyword compose_search_url cleans (the year is cut out only on extraction)
ComposeKeyword(keyword, vintage) ==
    IF VintageFalsy(vintage) /\ FirstYearPos(keyword) # 0
    THEN Strip(RemoveYears(keyword))
    ELSE keyword

compose_search_url_KeywordYearFirst(keyword, vintage, country, include_auction) ==
    LET kw == Hyphenate(Strip(PunctToSpace(ComposeKeyword(keyword, NoneV))))
        vt == ComposeVintage(keyword, NoneV)
        given == IF VintageFalsy(vintage) THEN <<>> ELSE StrOfNat(Val(vintage))
    IN <<UrlPrefix>> \o kw \o <<"/">>
       \o (IF vt # <<>> THEN vt \o <<"/">> ELSE IF given # <<>> THEN given \o <<"/">>
           ELSE <<>>)
       \o (IF ~include_auction THEN country \o <<UrlSuffix>> ELSE <<>>)

compose_search_url(keyword, vintage, country, include_auction) ==
    LET kw == Hyphenate(Strip(PunctToSpace(ComposeKeyword(keyword, vintage))))
        vt == ComposeVintage(keyword, vintage)
    IN <<UrlPrefix>> \o kw \o <<"/">>
       \o (IF vt # <<>> THEN vt \o <<"/">> ELSE <<>>)
       \o (IF ~include_auction THEN country \o <<UrlSuffix>> ELSE <<>>)

----------------------------------------------------------------------------
(* Offers parser *)

\* The offers block is abstracted to what parse_offers_html's XPath queries
\* extract from it:
\*   present     the page has a div#pjax-offers (offers_html is not "")
\*   expanded    a div of class auto-expand-card is in it
\*   count_text  text of the summary span, None when there is none
\*   cards       the offer-card__container divs, each with
\*     section    an offer-card__price-section div is in the card
\*     main       text of the price__detail_main div, None when there is none
\*     secondary  text of the price__detail_secondary div, None when none
\* A float is held as its number of tenths (15.5 is 155).

DigitVal(c) == CHOOSE n \in 0..9 : DigitChars[n + 1] = c

AllDigits(s) == \A i \in 1..Len(s) : IsDigit(s[i])

RECURSIVE NatOfDigits(_)
NatOfDigits(s) ==
    IF s = <<>> THEN 0 ELSE NatOfDigits(SubSeq(s, 1, Len(s) - 1)) * 10 + DigitVal(s[Len(s)])

\* position of the first c in s, 0 when there is none
FirstPos(s, c) ==
    IF \E i \in 1..Len(s) : s[i] = c
    THEN CHOOSE i \in 1..Len(s) : s[i] = c /\ \A k \in 1..(i - 1) : s[k] # c
    ELSE 0

IntegerPart(s) == IF FirstPos(s, ".") = 0 THEN s ELSE SubSeq(s, 1, FirstPos(s, ".") - 1)

FractionPart(s) ==
    IF FirstPos(s, ".") = 0 THEN <<>> ELSE SubSeq(s, FirstPos(s, ".") + 1, Len(s))

\* float(s) does not raise ValueError: digits with at most one point,
\* surrounding whitespace allowed
FloatOk(s) ==
    LET t == Strip(s)
    IN /\ AllDigits(IntegerPart(t))
       /\ AllDigits(FractionPart(t))
       /\ IntegerPart(t) # <<>> \/ FractionPart(t) # <<>>

\* float(s) in tenths, for texts with at most one digit after the point
FloatTenths(s) ==
    LET t == Strip(s)
    IN NatOfDigits(IntegerPart(t)) * 10
       + (IF FractionPart(t) = <<>> THEN 0 ELSE DigitVal(FractionPart(t)[1]))

\* s.split("/")[0]
BeforeSlash(s) == IF FirstPos(s, "/") = 0 THEN s ELSE SubSeq(s, 1, FirstPos(s, "/") - 1)

\* float(t): the value, or ValueError
FloatOf(t) ==
    IF FloatOk(t) THEN [raised |-> FALSE, value |-> Some(FloatTenths(t))]
    ELSE [raised |-> TRUE, value |-> NoneV]

\* t.replace("$", "").replace(",", "")
Unadorned(t) == RemoveAll(RemoveAll(t, <<"$">>), <<",">>)

\* float(price_str.replace("$", "").replace(",", "")) if price_str else None
PriceOf(price_str) ==
    IF price_str = <<>> THEN [raised |-> FALSE, value |-> NoneV]
    ELSE FloatOf(Unadorned(price_str))

\* float(unit_price_str.split("/")[0].replace("$", "").replace(",", ""))
\* if unit_price_str else None
UnitPriceOf(unit_price_str) ==
    IF unit_price_str = <<>> THEN [raised |-> FALSE, value |-> NoneV]
    ELSE FloatOf(Unadorned(BeforeSlash(unit_price_str)))

ParseCard_SymbolRequired(card) ==
    IF ~card.section \/ IsNone(card.main) \/ ~Contains(Val(card.main), <<"$">>)
    THEN [raised |-> TRUE, offer |-> NoneV]
    ELSE LET price == PriceOf(Val(card.main))
             unit_price == IF IsNone(card.secondary) THEN price
                           ELSE UnitPriceOf(Val(card.secondary))
         IN IF price.raised \/ unit_price.raised
            THEN [raised |-> TRUE, offer |-> NoneV]
            ELSE [raised |-> FALSE,
                  offer |-> Some([price |-> price.value,
                                  unit_price |-> unit_price.value])]

\* the body of the loop over the cards: the offer, or an exception
ParseCard(card) ==
    IF ~card.section \/ IsNone(card.main)
    THEN [raised |-> TRUE, offer |-> NoneV]
    ELSE LET price == PriceOf(Val(card.main))
             unit_price == IF IsNone(card.secondary) THEN price
                           ELSE UnitPriceOf(Val(card.secondary))
         IN IF price.raised \/ unit_price.raised
            THEN [raised |-> TRUE, offer |-> NoneV]
            ELSE [raised |-> FALSE,
                  offer |-> Some([price |-> price.value,
                                  unit_price |-> unit_price.value])]

\* the loop ending at the first card that raises
RECURSIVE ParseCards_StopAtFailure(_)
ParseCards_StopAtFailure(cards) ==
    IF cards = <<>> \/ ParseCard(Head(cards)).raised THEN <<>>
    ELSE <<Val(ParseCard(Head(cards)).offer)>> \o ParseCards_StopAtFailure(Tail(cards))

\* the offers of the cards that parse, in card order
RECURSIVE ParseCards(_)
ParseCards(cards) ==
    IF cards = <<>> THEN <<>>
    ELSE (IF ParseCard(Head(cards)).raised THEN <<>>
          ELSE <<Val(ParseCard(Head(cards)).offer)>>)
         \o ParseCards(Tail(cards))

\* text.split()[0]: the first run of non-space characters, <<>> when the
\* text has none (IndexError)
FirstWord(s) ==
    LET t == LStrip(s)
    IN IF FirstPos(t, " ") = 0 THEN t ELSE SubSeq(t, 1, FirstPos(t, " ") - 1)

\* int(offers_count_element[0].split()[0]) raises
CountRaises(count_text) == FirstWord(count_text) = <<>> \/ ~AllDigits(FirstWord(count_text))

NoOffersBlock == [present |-> FALSE, expanded |-> FALSE, count_text |-> NoneV, cards |-> <<>>]

\* parse_offers_html(offers_html)
parse_offers_html(block) ==
    IF ~block.present \/ block.expanded
    THEN [raised |-> FALSE, offers |-> <<>>, offers_count |-> 0]
    ELSE IF ~IsNone(block.count_text) /\ CountRaises(Val(block.count_text))
    THEN [raised |-> TRUE, offers |-> <<>>, offers_count |-> 0]
    ELSE [raised |-> FALSE,
          offers |-> ParseCards(block.cards),
          offers_count |-> IF IsNone(block.count_text) THEN 0
                           ELSE NatOfDigits(FirstWord(Val(block.count_text)))]

MinUnitPrice_OfPrices(offers) ==
    LET prices == {Val(offers[i].price) : i \in {k \in 1..Len(offers) :
                                                 ~IsNone(offers[k].price)}}
    IN IF prices = {} THEN NoneV
       ELSE Some(CHOOSE p \in prices : \A q \in prices : p <= q)

\* min([o.unit_price for o in offers if o.unit_price is not None], default=None)
MinUnitPrice(offers) ==
    LET prices == {Val(offers[i].unit_price) : i \in {k \in 1..Len(offers) :
                                                      ~IsNone(offers[k].unit_price)}}
    IN IF prices = {} THEN NoneV
       ELSE Some(CHOOSE p \in prices : \A q \in prices : p <= q)

----------------------------------------------------------------------------
(* Page parser *)

\* Markup is abstracted to what the parser's XPath queries extract from it:
\*   wellformed  lxml's fromstring accepts the text
\*   h1_id       //h1/@data-name-id        h1_text   //h1/text()
\*   og_year     the /dddd/ segment of the og:url meta content
\*   producer    //a[@id="MoreProducerDetail"]/@title
\*   offers      the div#pjax-offers block (see the offers parser)
\* The empty response body is the markup EmptyMarkup.

EmptyMarkup == [wellformed |-> FALSE, empty |-> TRUE, h1_id |-> NoneV,
                h1_text |-> NoneV, og_year |-> NoneV, producer |-> NoneV,
                offers |-> NoOffersBlock]

\* `if html:` / `if cached_html:` on an Optional[str]
Truthy(html) == ~IsNone(html) /\ ~Val(html).empty

\* f"{wine_searcher_id}_{vintage}"
SnapshotId(wsid, vintage) ==
    (IF IsNone(wsid) THEN <<"N", "o", "n", "e">> ELSE StrOfNat(Val(wsid)))
    \o <<"_">> \o StrOfNat(vintage)

\* producer.replace("More information about ", "")
ProducerPrefix == <<"More information about ">>

parse_wine_searcher_html(html) ==
    IF ~Truthy(html) THEN NoneV
    ELSE LET m == Val(html) IN
      IF ~m.wellformed \/ parse_offers_html(m.offers).raised THEN NoneV
      ELSE LET name == IF IsNone(m.h1_text) THEN NoneV ELSE Some(Strip(Val(m.h1_text)))
               vintage == IF IsNone(m.og_year) THEN 1 ELSE Val(m.og_year)
           IN Some([id |-> SnapshotId(m.h1_id, vintage),
                    wine_searcher_id |-> m.h1_id,
                    vintage |-> vintage,
                    name |-> name,
                    producer |-> IF IsNone(m.producer) THEN NoneV
                                 ELSE Some(RemoveAll(Val(m.producer), ProducerPrefix)),
                    min_price |-> MinUnitPrice(parse_offers_html(m.offers).offers),
                    offers |-> parse_offers_html(m.offers).offers,
                    offers_count |-> parse_offers_html(m.offers).offers_count])

----------------------------------------------------------------------------
(* Fusion: snapshot to catalog record *)

\* convert_wine_searcher_to_wine raises: `str(vintage) in name` on a None name
\* (TypeError), or Wine(name=None) (ValidationError) when the vintage is 0
ConvertRaises(ws) ==
    IF ws.vintage # 0 THEN IsNone(ws.name) ELSE IsNone(ws.name)

ConvertName(ws) ==
    LET name == Val(ws.name)
        v == StrOfNat(ws.vintage)
    IN IF ws.vintage # 0 /\ Contains(name, v)
       THEN Strip(RemoveAll(RemoveAll(name, v \o <<" ">>), v))
       ELSE name

\* the WineCreate fields of the record convert_wine_searcher_to_wine builds
convert_wine_searcher_to_wine(ws) ==
    [name |-> ConvertName(ws),
     vintage |-> Some(ws.vintage),
     winery |-> ws.producer,
     wine_searcher_id |-> Some(ws.id),
     name_alias |-> NoneV]

----------------------------------------------------------------------------
(* Bounds and input domains *)

\* rows the wines table may hold
MaxWines == 2

Country == <<"u", "s", "a">>

\* (name, vintage) pairs the callers pass to search_wine and fetch_wine
Queries ==
    { <<(<<"a", "b">>), NoneV>>,
      <<(<<"a", "b">>), Some(2020)>>,
      <<(<<"c", "d">>), NoneV>> }

\* markup the external site may serve
PageWine == [wellformed |-> TRUE, empty |-> FALSE, h1_id |-> Some(7),
             h1_text |-> Some(<<" ", "2", "0", "1", "9", " ", "c", "d">>),
             og_year |-> Some(2019),
             producer |-> Some(<<"More information about ", "P">>),
             offers |-> NoOffersBlock]

PageNoHeading == [wellformed |-> TRUE, empty |-> FALSE, h1_id |-> NoneV,
                  h1_text |-> NoneV, og_year |-> NoneV, producer |-> NoneV,
                  offers |-> NoOffersBlock]

PageBroken == [wellformed |-> FALSE, empty |-> FALSE, h1_id |-> NoneV,
               h1_text |-> NoneV, og_year |-> NoneV, producer |-> NoneV,
               offers |-> NoOffersBlock]

Markups == {PageWine, PageNoHeading, PageBroken, EmptyMarkup}

\* what one HTTP exchange (GET of the page, or POST to the proxy) comes to:
\* ok = FALSE is a transport error, timeout, non-2xx status or success:false
UrlPlain == compose_search_url(<<"a", "b">>, NoneV, Country, FALSE)

UrlVintage == compose_search_url(<<"a", "b">>, Some(2020), Country, FALSE)

UrlOther == compose_search_url(<<"c", "d">>, NoneV, Country, FALSE)

Urls == {compose_search_url(q[1], q[2], Country, FALSE) : q \in Queries}

\* the markup the site may serve under a url
SiteBodies(url) ==
    IF url = UrlPlain THEN {PageWine, PageBroken, EmptyMarkup}
    ELSE IF url = UrlVintage THEN {PageWine}
    ELSE {PageNoHeading}

\* the request that gets no page
NoExchange == [ok |-> FALSE, body |-> EmptyMarkup]

Exchanges(url) ==
    [ok : {FALSE}, body : {EmptyMarkup}] \cup [ok : {TRUE}, body : SiteBodies(url)]

\* WineCreate payloads handed to create_wine directly
WineCreates ==
    [name : {<<"A", "B", "x">>},
     vintage : {NoneV},
     winery : {NoneV},
     wine_searcher_id : {NoneV, Some(<<>>), Some(<<"7", "_", "2", "0", "1", "9">>)},
     name_alias : {NoneV}]

----------------------------------------------------------------------------
(* State *)

VARIABLES
    wines,        \* the wines table: sequence of rows, a row's id is its index
    ws_wines,     \* the wine_searcher_wines table: snapshot id -> snapshot
    ws_cache,     \* ./.cache/wine_searcher: url -> Optional markup
    fc_cache,     \* ./.cache/firecrawl: url -> Optional markup
    api_key,      \* FIRECRAWL_API_KEY is set
    last,         \* the last call: its arguments and what it returned
    batch,        \* the last call when it was a batch_fetch_html: what it returned
    merge,        \* the arguments of merge_wine_data and what it returned
    pure,         \* the last call of a pure function: arguments and result
    run,          \* the call under way: where it is, its locals
    offers_tbl    \* the offers table: sequence of rows, a row's id is its index

vars ==
    <<wines, ws_wines, ws_cache, fc_cache, api_key, last, batch, merge, pure, run, offers_tbl>>

----------------------------------------------------------------------------
(* Page caches and fetchers.  Each operator returns the value the function  *)
(* returns together with the caches it leaves and the HTTP requests it made *)

load_from_cache_Miss(cache, url) == NoneV

\* load_from_cache: the stored markup, None when there is no file
load_from_cache(cache, url) == cache[url]

\* save_to_cache: the file for the url's key is (over)written
save_to_cache(cache, url, html) == [cache EXCEPT ![url] = Some(html)]

\* data of a successful proxy reply: one key per requested format
ProxyData(formats, x) == [f \in formats |-> Some(x.body)]

\* firecrawl_api.fetch_url from the point where `await client.post(...)`
\* returns: the reply is read and the markup saved
fetch_url_reply(fc, url, formats, use_cache, x) ==
    IF ~x.ok
    THEN [html |-> NoneV, raised |-> FALSE, fc |-> fc, net |-> 1]
    ELSE LET data == ProxyData(formats, x)
             html_content == IF "rawHtml" \in DOMAIN data THEN data["rawHtml"] ELSE NoneV
         IN [html |-> html_content, raised |-> FALSE,
             fc |-> IF Truthy(html_content) /\ use_cache
                    THEN save_to_cache(fc, url, Val(html_content)) ELSE fc,
             net |-> 1]

\* firecrawl_api.fetch_url
fetch_url(fc, key, url, formats, use_cache, x) ==
    IF use_cache /\ Truthy(load_from_cache(fc, url))
    THEN [html |-> load_from_cache(fc, url), raised |-> FALSE, fc |-> fc, net |-> 0]
    ELSE IF ~key
    THEN [html |-> NoneV, raised |-> TRUE, fc |-> fc, net |-> 0]
    ELSE fetch_url_reply(fc, url, formats, use_cache, x)

\* fetch_html, crawler branch: fetch_url returns markup text (or None), which
\* the caller reads as a dict.  `"rawHtml" in response` is then a substring
\* test; where it holds response.get raises AttributeError, caught by the
\* except clause, and where it does not html_content stays None
CrawlerHtml(response) == NoneV

\* wine_searcher.fetch_html
fetch_html(ws, fc, key, url, use_crawler, use_cache, x) ==
    IF use_cache /\ Truthy(load_from_cache(ws, url))
    THEN [html |-> load_from_cache(ws, url), ws |-> ws, fc |-> fc, net |-> 0,
          cache_hit |-> TRUE]
    ELSE IF use_crawler
    THEN LET r == fetch_url(fc, key, url, {"rawHtml"}, TRUE, x)
             html_content == IF r.raised THEN NoneV ELSE CrawlerHtml(r.html)
         IN [html |-> html_content,
             ws |-> IF Truthy(html_content) /\ use_cache
                    THEN save_to_cache(ws, url, Val(html_content)) ELSE ws,
             fc |-> r.fc, net |-> r.net, cache_hit |-> FALSE]
    ELSE LET html_content == IF x.ok THEN Some(x.body) ELSE NoneV
         IN [html |-> html_content,
             ws |-> IF Truthy(html_content) /\ use_cache
                    THEN save_to_cache(ws, url, Val(html_content)) ELSE ws,
             fc |-> fc, net |-> 1, cache_hit |-> FALSE]

\* the one point where fetch_html over the proxy hands control back to the
\* event loop: `await client.post(...)` in fetch_url, reached when neither
\* cache holds the page and the key is set.  A cache hit returns and a missing
\* key raises before any suspension
AwaitsProxy(ws, fc, key, url, use_cache) ==
    /\ ~(use_cache /\ Truthy(load_from_cache(ws, url)))
    /\ ~Truthy(load_from_cache(fc, url))
    /\ key

\* fetch_wine over the proxy from the point where the post returns: fetch_url
\* reads the reply, fetch_html and fetch_wine go on with what it returns
fetch_wine_reply(ws, fc, wine_name, vintage, country, use_cache, x) ==
    LET url == compose_search_url(wine_name, vintage, country, FALSE)
        r == fetch_url_reply(fc, url, {"rawHtml"}, TRUE, x)
        html_content == CrawlerHtml(r.html)
    IN [wine |-> IF ~Truthy(html_content) THEN NoneV
                 ELSE parse_wine_searcher_html(html_content),
        url |-> url, html |-> html_content,
        ws |-> IF Truthy(html_content) /\ use_cache
               THEN save_to_cache(ws, url, Val(html_content)) ELSE ws,
        fc |-> r.fc, net |-> r.net, cache_hit |-> FALSE]

\* wine_searcher.fetch_wine: the snapshot (or None) and fetch_html's effects
fetch_wine(ws, fc, key, wine_name, vintage, country, use_crawler, use_cache, x) ==
    LET url == compose_search_url(wine_name, vintage, country, FALSE)
        f == fetch_html(ws, fc, key, url, use_crawler, use_cache, x)
    IN [wine |-> IF ~Truthy(f.html) THEN NoneV ELSE parse_wine_searcher_html(f.html),
        url |-> url, html |-> f.html, ws |-> f.ws, fc |-> f.fc, net |-> f.net,
        cache_hit |-> f.cache_hit]

----------------------------------------------------------------------------
(* The wines table *)

Ids(tbl) == 1..Len(tbl)

\* the vintage filter left out of the three queries
VintageOk_Unfiltered(row, vintage) == TRUE

\* .eq("vintage", str(vintage)), applied when a vintage is given
VintageOk(row, vintage) == IsNone(vintage) \/ row.vintage = vintage

\* Query 1: .eq("name", wine_name)
QueryExact(tbl, wine_name, vintage) ==
    {i \in Ids(tbl) : VintageOk(tbl[i], vintage) /\ tbl[i].name = wine_name}

\* Query 2: .ilike("name", f"%{wine_name}%")
QueryPartial(tbl, wine_name, vintage) ==
    {i \in Ids(tbl) : /\ VintageOk(tbl[i], vintage)
                      /\ ILike(tbl[i].name, <<"%">> \o wine_name \o <<"%">>)}

\* the alias query matching nothing (the array filter never applies)
QueryAlias_Dead(tbl, wine_name, vintage) == {}

\* Query 3: .contains("name_alias", [wine_name])
QueryAlias(tbl, wine_name, vintage) ==
    {i \in Ids(tbl) : /\ VintageOk(tbl[i], vintage)
                      /\ ~IsNone(tbl[i].name_alias)
                      /\ wine_name \in Range(Val(tbl[i].name_alias))}

\* the merge taking partial matches before alias matches
search_wine_from_db_PartialFirst(tbl, wine_name, vintage) ==
    LET exact == {i \in Ids(tbl) : (IsNone(vintage) \/ tbl[i].vintage = vintage)
                                   /\ tbl[i].name = wine_name}
        alias == {i \in Ids(tbl) : /\ (IsNone(vintage) \/ tbl[i].vintage = vintage)
                                   /\ ~IsNone(tbl[i].name_alias)
                                   /\ wine_name \in Range(Val(tbl[i].name_alias))}
        partial == {i \in Ids(tbl) : /\ (IsNone(vintage) \/ tbl[i].vintage = vintage)
                                     /\ ILike(tbl[i].name, <<"%">> \o wine_name \o <<"%">>)}
    IN IF exact # {} THEN exact
       ELSE IF partial \ exact # {} THEN partial \ exact
       ELSE alias \ (exact \cup partial)

\* search_wine_from_db: the ids all_results[0] can be.  The three responses are
\* merged exact, then alias, then partial (ids already present skipped); the
\* store returns the rows of one response in no particular order.
\* The empty set stands for the return value None.
search_wine_from_db(tbl, wine_name, vintage) ==
    LET exact == QueryExact(tbl, wine_name, vintage)
        alias == QueryAlias(tbl, wine_name, vintage)
        partial == QueryPartial(tbl, wine_name, vintage)
    IN IF exact # {} THEN exact
       ELSE IF alias \ exact # {} THEN alias \ exact
       ELSE partial \ (exact \cup alias)

\* the lookup by external id comparing against a column that never holds it
QueryBySearcherId_Never(tbl, wsid) == {}

\* .eq("wine_searcher_id", id): the rows existing_response.data can hold
QueryBySearcherId(tbl, wsid) ==
    {i \in Ids(tbl) : tbl[i].wine_searcher_id = Some(wsid)}

\* `if wine_data.get("wine_searcher_id"):` - None and "" are both falsy
SearcherIdTruthy(w) == ~IsNone(w.wine_searcher_id) /\ Val(w.wine_searcher_id) # <<>>

Row(id, w) ==
    [id |-> id, name |-> w.name, vintage |-> w.vintage, winery |-> w.winery,
     wine_searcher_id |-> w.wine_searcher_id, name_alias |-> w.name_alias]

\* the update branch leaving the stored alias list when the payload has none
create_wine_KeepAlias(tbl, w, hit) ==
    IF hit # 0
    THEN LET kept == IF IsNone(w.name_alias)
                     THEN [w EXCEPT !.name_alias = tbl[hit].name_alias] ELSE w
         IN [tbl |-> [tbl EXCEPT ![hit] = [id |-> hit, name |-> kept.name,
                          vintage |-> kept.vintage, winery |-> kept.winery,
                          wine_searcher_id |-> kept.wine_searcher_id,
                          name_alias |-> kept.name_alias]],
             wine |-> [id |-> hit, name |-> kept.name,
                       vintage |-> kept.vintage, winery |-> kept.winery,
                       wine_searcher_id |-> kept.wine_searcher_id,
                       name_alias |-> kept.name_alias]]
    ELSE LET id == Len(tbl) + 1
         IN [tbl |-> Append(tbl, [id |-> id, name |-> w.name, vintage |-> w.vintage,
                          winery |-> w.winery, wine_searcher_id |-> w.wine_searcher_id,
                          name_alias |-> w.name_alias]),
             wine |-> [id |-> id, name |-> w.name, vintage |-> w.vintage,
                       winery |-> w.winery, wine_searcher_id |-> w.wine_searcher_id,
                       name_alias |-> w.name_alias]]

\* create_wine, given the row `hit` that existing_response.data[0] is (0: no row)
create_wine(tbl, w, hit) ==
    IF hit # 0
    THEN [tbl |-> [tbl EXCEPT ![hit] = Row(hit, w)], wine |-> Row(hit, w)]
    ELSE LET id == Len(tbl) + 1
         IN [tbl |-> Append(tbl, Row(id, w)), wine |-> Row(id, w)]

\* create_wine without the lookup by wine_searcher_id
CreateHits_NoLookup(tbl, w) == {0}

\* create_wine taking a row of the same name and vintage as the existing one
CreateHits_ByName(tbl, w) ==
    IF {i \in Ids(tbl) : tbl[i].name = w.name /\ tbl[i].vintage = w.vintage} # {}
    THEN {i \in Ids(tbl) : tbl[i].name = w.name /\ tbl[i].vintage = w.vintage}
    ELSE {0}

\* the rows create_wine may take as existing_response.data[0]
CreateHits(tbl, w) ==
    IF SearcherIdTruthy(w) /\ QueryBySearcherId(tbl, Val(w.wine_searcher_id)) # {}
    THEN QueryBySearcherId(tbl, Val(w.wine_searcher_id))
    ELSE {0}

\* get_wine(wine_id): the row, None when no row has the id
get_wine(tbl, wine_id) == IF wine_id \in Ids(tbl) THEN Some(tbl[wine_id]) ELSE NoneV

update_wine_Replace(tbl, wine_id, wine_data, now) ==
    IF IsNone(get_wine(tbl, wine_id)) THEN [tbl |-> tbl, wine |-> NoneV]
    ELSE LET row == [f \in DOMAIN tbl[wine_id] |->
                        IF f \in DOMAIN wine_data THEN wine_data[f]
                        ELSE IF f = "updated_at" THEN now
                        ELSE IF f = "id" THEN tbl[wine_id][f]
                        ELSE NoneV]
         IN [tbl |-> [tbl EXCEPT ![wine_id] = row], wine |-> Some(row)]

\* update_wine(wine_id, wine): wine_data holds the fields set in the
\* WineUpdate (model_dump(exclude_unset=True)), now is datetime.now(); a
\* table kept without the updated_at column has none to stamp
update_wine(tbl, wine_id, wine_data, now) ==
    IF IsNone(get_wine(tbl, wine_id)) THEN [tbl |-> tbl, wine |-> NoneV]
    ELSE LET row == [f \in DOMAIN tbl[wine_id] |->
                        IF f \in DOMAIN wine_data THEN wine_data[f]
                        ELSE IF f = "updated_at" THEN now
                        ELSE tbl[wine_id][f]]
         IN [tbl |-> [tbl EXCEPT ![wine_id] = row], wine |-> Some(row)]

\* the alias appended to the Wine object in memory only
update_wine_alias_NotPersisted(tbl, wine_id, name_alias) == tbl

\* update_wine(existing_wine.id, WineUpdate(name_alias=name_alias))
update_wine_alias(tbl, wine_id, name_alias) ==
    update_wine(tbl, wine_id, [f \in {"name_alias"} |-> Some(name_alias)], 0).tbl

\* wine.model_dump(exclude={"offers"})
WineData(ws) == [f \in DOMAIN ws \ {"offers"} |-> ws[f]]

\* save_wine_searcher, the wine_searcher_wines table: upsert of the snapshot
\* under its id
save_wine_searcher(tbl, ws) == {s \in tbl : s.id # ws.id} \cup {WineData(ws)}

\* offer_data: each offer of the snapshot with wine_id = wine.id
OfferData(ws) ==
    [i \in 1..Len(ws.offers) |->
        [wine_id |-> ws.id, price |-> ws.offers[i].price,
         unit_price |-> ws.offers[i].unit_price]]

\* client.table("offers").upsert(offer_data): the rows carry no id.  Where
\* the table's key is generated (keyed = FALSE) every row is inserted; where
\* it lies within the columns sent (keyed = TRUE) a row equal to a stored
\* row in those columns takes its place.  No stored row is deleted.
RECURSIVE UpsertOffers(_, _, _)
UpsertOffers(tbl, rows, keyed) ==
    IF rows = <<>> THEN tbl
    ELSE UpsertOffers(IF keyed /\ Head(rows) \in Range(tbl) THEN tbl
                      ELSE Append(tbl, Head(rows)),
                      Tail(rows), keyed)

\* save_wine_searcher, the offers table: `if offer_data:` upsert.  A keyed
\* upsert naming one key twice is refused by the store and raises.
save_offers(tbl, ws, keyed) ==
    IF OfferData(ws) = <<>> THEN [tbl |-> tbl, raised |-> FALSE]
    ELSE IF keyed /\ Cardinality(Range(OfferData(ws))) < Len(OfferData(ws))
    THEN [tbl |-> tbl, raised |-> TRUE]
    ELSE [tbl |-> UpsertOffers(tbl, OfferData(ws), keyed), raised |-> FALSE]

\* what save_wine_searcher may leave in the offers table, the table's key
\* being outside this code
SaveOffersOutcomes(tbl, ws) == {save_offers(tbl, ws, keyed) : keyed \in BOOLEAN}

----------------------------------------------------------------------------
(* Batch fetch *)

\* longest url list handed to batch_fetch_html
MaxBatch == 2

RECURSIVE SumOver(_, _)
SumOver(f, S) ==
    IF S = {} THEN 0
    ELSE LET i == CHOOSE j \in S : TRUE IN f[i] + SumOver(f, S \ {i})

\* the orders in which the tasks of one gather can complete
Orders(n) == {o \in [1..n -> 1..n] : \A i \in 1..n : \E j \in 1..n : o[j] = i}

\* the cache after the saves of the tasks in `todo`, made in completion order
RECURSIVE SavesInOrder(_, _, _, _, _)
SavesInOrder(cache, order, todo, urls, htmls) ==
    IF order = <<>> THEN cache
    ELSE LET i == Head(order)
             next == IF i \in todo /\ Truthy(htmls[i])
                     THEN save_to_cache(cache, urls[i], Val(htmls[i]))
                     ELSE cache
         IN SavesInOrder(next, Tail(order), todo, urls, htmls)

\* the save_to_cache calls of the tasks in `todo`, in completion order: the
\* url written and the markup written
RECURSIVE SaveLog(_, _, _, _)
SaveLog(order, todo, urls, htmls) ==
    IF order = <<>> THEN <<>>
    ELSE LET i == Head(order)
         IN (IF i \in todo /\ Truthy(htmls[i])
             THEN <<[url |-> urls[i], html |-> Val(htmls[i])]>> ELSE <<>>)
            \o SaveLog(Tail(order), todo, urls, htmls)

BatchCached_Nothing(cache, urls, use_cache) == {}

\* the positions whose url the first loop finds in the cache
BatchCached(cache, urls, use_cache) ==
    {i \in 1..Len(urls) : use_cache /\ Truthy(load_from_cache(cache, urls[i]))}

\* firecrawl_api.batch_fetch_urls; xs[i] is the exchange of task i
batch_fetch_urls(fc, key, urls, formats, use_cache, xs, order) ==
    LET n == Len(urls)
        cached == BatchCached(fc, urls, use_cache)
        todo == (1..n) \ cached
        r == [i \in 1..n |-> fetch_url(fc, key, urls[i], formats, FALSE, xs[i])]
        html == [i \in 1..n |-> IF r[i].raised THEN NoneV ELSE r[i].html]
    IN [results |-> [i \in 1..n |-> IF i \in cached
                                    THEN load_from_cache(fc, urls[i]) ELSE html[i]],
        fc |-> IF use_cache THEN SavesInOrder(fc, order, todo, urls, html) ELSE fc,
        net |-> SumOver([i \in 1..n |-> r[i].net], todo)]

\* batch_fetch_html, crawler branch: each response is markup text (or None)
\* read as a dict.  `"html" in response` is a substring test; where it holds
\* response.get raises AttributeError, which the except clause around the
\* loop catches, and where it does not the position is skipped: no position
\* is ever assigned
CrawlerBatchHtml(response) == NoneV

\* wine_searcher.batch_fetch_html; xs[i] is the exchange of task i
batch_fetch_html(ws, fc, key, urls, use_crawler, use_cache, xs, order) ==
    LET n == Len(urls)
        cached == BatchCached(ws, urls, use_cache)
        todo == (1..n) \ cached
        todo_urls == [k \in 1..Cardinality(todo) |->
                        urls[CHOOSE i \in todo : Cardinality({j \in todo : j < i}) = k - 1]]
    IN IF todo = {}
       THEN [results |-> [i \in 1..n |-> load_from_cache(ws, urls[i])],
             ws |-> ws, fc |-> fc, net |-> 0, writes |-> <<>>]
       ELSE IF use_crawler
       THEN LET pos == [i \in todo |-> Cardinality({j \in todo : j < i}) + 1]
                todo_xs == [k \in 1..Cardinality(todo) |->
                              xs[CHOOSE i \in todo : pos[i] = k]]
                todo_order == [k \in 1..Cardinality(todo) |->
                                 pos[SelectSeq(order, LAMBDA i : i \in todo)[k]]]
                b == batch_fetch_urls(fc, key, todo_urls, {"html"}, TRUE, todo_xs,
                                      todo_order)
                html == [i \in 1..n |-> IF i \in todo
                                        THEN CrawlerBatchHtml(b.results[pos[i]])
                                        ELSE NoneV]
            IN [results |-> [i \in 1..n |-> IF i \in cached
                                            THEN load_from_cache(ws, urls[i])
                                            ELSE html[i]],
                ws |-> IF use_cache THEN SavesInOrder(ws, order, todo, urls, html)
                       ELSE ws,
                fc |-> b.fc, net |-> b.net,
                writes |-> IF use_cache THEN SaveLog(order, todo, urls, html)
                           ELSE <<>>]
       ELSE LET f == [i \in 1..n |-> fetch_html(ws, fc, key, urls[i], FALSE, FALSE, xs[i])]
                html == [i \in 1..n |-> f[i].html]
            IN [results |-> [i \in 1..n |-> IF i \in cached
                                            THEN load_from_cache(ws, urls[i])
                                            ELSE html[i]],
                ws |-> IF use_cache THEN SavesInOrder(ws, order, todo, urls, html)
                       ELSE ws,
                fc |-> fc,
                net |-> SumOver([i \in 1..n |-> f[i].net], todo),
                writes |-> IF use_cache THEN SaveLog(order, todo, urls, html)
                           ELSE <<>>]

----------------------------------------------------------------------------
(* Field merge *)

\* the keys the merged dictionaries may carry
MergeFields == {"tasting_notes", "winery"}

\* dictionaries over some of the keys with values from vals
Dicts(vals) == UNION {[K -> vals] : K \in SUBSET MergeFields}

merge_wine_data_SecondaryWins(primary_data, secondary_data) ==
    [key \in DOMAIN primary_data \cup DOMAIN secondary_data |->
        IF key \in DOMAIN secondary_data /\ ~IsNone(secondary_data[key])
        THEN secondary_data[key]
        ELSE IF key \in DOMAIN primary_data THEN primary_data[key] ELSE NoneV]

\* merge_wine_data(primary_data, secondary_data)
merge_wine_data(primary_data, secondary_data) ==
    [key \in DOMAIN primary_data \cup DOMAIN secondary_data |->
        IF /\ key \in DOMAIN secondary_data
           /\ (key \notin DOMAIN primary_data \/ IsNone(primary_data[key]))
        THEN secondary_data[key]
        ELSE primary_data[key]]

----------------------------------------------------------------------------
(* Operations *)

NoCall ==
    [op |-> "none", name |-> <<>>, vintage |-> NoneV, arg |-> NoneV,
     result |-> NoneV, raised |-> FALSE, local_hit |-> FALSE, fetched |-> FALSE,
     cache_hit |-> FALSE, net |-> 0, html |-> NoneV, snapshot |-> NoneV,
     inserted |-> FALSE, first |-> NoneV, url |-> NoneV, served |-> NoneV]

EmptyCache == [u \in Urls |-> NoneV]

NoBatch ==
    [done |-> FALSE, urls |-> <<>>, use_crawler |-> FALSE, use_cache |-> FALSE,
     cached |-> {}, proxy_cached |-> {}, served |-> <<>>, results |-> <<>>,
     net |-> 0, writes |-> <<>>]

NoPure == [op |-> "none"]

\* no search_wine call under way
NoRun ==
    [pc |-> "idle", name |-> <<>>, vintage |-> NoneV, fetch |-> NoneV,
     x |-> NoneV, trace |-> <<>>, wines0 |-> <<>>, ws_wines0 |-> {}]

NoMerge == [done |-> FALSE, primary |-> <<>>, secondary |-> <<>>, merged |-> <<>>]

Init ==
    /\ wines = <<>>
    /\ ws_wines = {}
    /\ ws_cache = EmptyCache
    /\ fc_cache = EmptyCache
    /\ api_key = FALSE
    /\ last = NoCall
    /\ batch = NoBatch
    /\ merge = NoMerge
    /\ pure = NoPure
    /\ run = NoRun
    /\ offers_tbl = <<>>

\* what a search_wine call remembers of the call before it when that call was
\* search_wine with the same arguments and ended at a record built from or
\* found through a snapshot: the id it returned and the snapshot's id
FirstOf(call, wine_name, vintage) ==
    IF /\ call.op = "search_wine" /\ call.name = wine_name /\ call.vintage = vintage
       /\ ~IsNone(call.snapshot) /\ ~call.raised
    THEN Some([id |-> Val(call.result).id, snap |-> Val(call.snapshot).id])
    ELSE NoneV

WithAlias_AlwaysAppend(name_alias, wine_name) ==
    Append(IF IsNone(name_alias) THEN <<>> ELSE Val(name_alias), wine_name)

\* the name_alias list search_wine ends up with for a query that differs
\* from the record's name: `alias or []`, the query appended when absent
WithAlias(name_alias, wine_name) ==
    LET lst == IF IsNone(name_alias) THEN <<>> ELSE Val(name_alias)
    IN IF wine_name \in Range(lst) THEN lst ELSE Append(lst, wine_name)

\* the markup a call got over the network: the body of its exchange when it
\* made a request and the request succeeded
Served(net, x) == IF net = 1 /\ x.ok THEN Some(x.body) ELSE NoneV

\* search_wine, step 1 taken: the local lookup found a row
SearchWineLocal(wine_name, vintage) ==
    /\ search_wine_from_db(wines, wine_name, vintage) # {}
    /\ \E r \in search_wine_from_db(wines, wine_name, vintage) :
         last' = [NoCall EXCEPT !.op = "search_wine", !.name = wine_name,
                                !.vintage = vintage, !.result = Some(wines[r]),
                                !.local_hit = TRUE,
                                !.first = FirstOf(last, wine_name, vintage)]
    /\ UNCHANGED <<wines, ws_wines, ws_cache, fc_cache, api_key, batch, merge, pure, run, offers_tbl>>

\* the existing row rebuilt from the snapshot's facts
SearchWineExisting_Overwrite(call, e, wine_name) ==
    LET w == convert_wine_searcher_to_wine(Val(call.snapshot))
        row == Row(e, [w EXCEPT !.name_alias =
                                  Some(WithAlias(wines[e].name_alias, wine_name))])
    IN /\ wines' = [wines EXCEPT ![e] = row]
       /\ last' = [call EXCEPT !.result = Some(row)]

\* search_wine, the snapshot's id already belongs to row e: alias bookkeeping
\* by update_wine; the Wine object read before the update is returned, and it
\* shows the appended alias only where `existing_wine.name_alias or []` is the
\* record's own list
SearchWineExisting(call, e, wine_name) ==
    LET existing_wine == wines[e]
        old == existing_wine.name_alias
        shared == ~IsNone(old) /\ Val(old) # <<>>
        changed == existing_wine.name # wine_name
                   /\ WithAlias(old, wine_name) # (IF IsNone(old) THEN <<>> ELSE Val(old))
    IN /\ wines' = IF changed
                   THEN update_wine_alias(wines, e, WithAlias(old, wine_name))
                   ELSE wines
       /\ last' = [call EXCEPT !.result =
                      Some(IF changed /\ shared
                           THEN [existing_wine EXCEPT
                                   !.name_alias = Some(WithAlias(old, wine_name))]
                           ELSE existing_wine)]

\* search_wine, no row has the snapshot's id: the query becomes an alias of
\* the new record when it differs from the record's name; create_wine
SearchWineCreate(call, wine_data, wine_name) ==
    LET w == IF wine_data.name # wine_name
             THEN [wine_data EXCEPT !.name_alias =
                      Some(WithAlias(wine_data.name_alias, wine_name))]
             ELSE wine_data
    IN \E hit \in CreateHits(wines, w) :
         /\ hit = 0 => Len(wines) < MaxWines
         /\ wines' = create_wine(wines, w, hit).tbl
         /\ last' = [call EXCEPT !.result = Some(create_wine(wines, w, hit).wine),
                                 !.inserted = (hit = 0)]

\* search_wine from the point where fetch_wine has returned `wine`: Case 1
\* (save the snapshot, fuse, look the id up, alias bookkeeping or create_wine)
\* or Case 2 (the placeholder).  None of the awaited calls in it suspends:
\* the store client is the synchronous one
SearchWineFetched(call, wine, wine_name, vintage) ==
    IF ~IsNone(wine)
    THEN /\ ws_wines' = save_wine_searcher(ws_wines, Val(wine))
         /\ \E o \in SaveOffersOutcomes(offers_tbl, Val(wine)) :
              offers_tbl' = o.tbl
         /\ IF ConvertRaises(Val(wine))
            THEN /\ wines' = wines
                 /\ last' = [call EXCEPT !.raised = TRUE]
            ELSE IF QueryBySearcherId(wines, Val(wine).id) # {}
            THEN \E e \in QueryBySearcherId(wines, Val(wine).id) :
                    SearchWineExisting(call, e, wine_name)
            ELSE SearchWineCreate(call, convert_wine_searcher_to_wine(Val(wine)),
                                  wine_name)
    ELSE /\ ws_wines' = ws_wines
         /\ offers_tbl' = offers_tbl
         /\ SearchWineCreate(
               call,
               [name |-> wine_name, vintage |-> vintage, winery |-> NoneV,
                wine_searcher_id |-> NoneV, name_alias |-> NoneV],
               wine_name)

\* search_wine past a local miss: fetch_wine, then fusion or the placeholder
SearchWineRemote(wine_name, vintage) ==
    /\ search_wine_from_db(wines, wine_name, vintage) = {}
    /\ \E x \in Exchanges(compose_search_url(wine_name, vintage, Country, FALSE)) :
       \E f \in {fetch_wine(ws_cache, fc_cache, api_key, wine_name, vintage,
                             Country, TRUE, TRUE, x)} :
         LET call == [NoCall EXCEPT !.op = "search_wine", !.name = wine_name,
                                    !.vintage = vintage, !.fetched = TRUE,
                                    !.cache_hit = f.cache_hit, !.net = f.net,
                                    !.html = f.html, !.snapshot = f.wine,
                                    !.first = FirstOf(last, wine_name, vintage),
                                    !.url = Some(f.url), !.served = Served(f.net, x)]
         IN /\ ws_cache' = f.ws
            /\ fc_cache' = f.fc
            /\ SearchWineFetched(call, f.wine, wine_name, vintage)
    /\ UNCHANGED <<api_key, batch, merge, pure, run>>

\* search_wine(wine_name, vintage)
SearchWine ==
    \E q \in Queries : SearchWineLocal(q[1], q[2]) \/ SearchWineRemote(q[1], q[2])

\* create_wine(wine) called on its own (POST /wines)
CreateWine ==
    \E w \in WineCreates : \E hit \in CreateHits(wines, w) :
        /\ hit = 0 => Len(wines) < MaxWines
        /\ wines' = create_wine(wines, w, hit).tbl
        /\ last' = [NoCall EXCEPT !.op = "create_wine", !.name = w.name,
                                  !.vintage = w.vintage, !.arg = Some(w),
                                  !.result = Some(create_wine(wines, w, hit).wine),
                                  !.inserted = (hit = 0)]
        /\ UNCHANGED <<ws_wines, ws_cache, fc_cache, api_key, batch, merge, pure, run, offers_tbl>>

\* fetch_wine(wine_name, vintage, use_crawler=...) called on its own
FetchWine ==
    \E q \in Queries, use_crawler \in BOOLEAN :
      \E x \in Exchanges(compose_search_url(q[1], q[2], Country, FALSE)) :
      \E f \in {fetch_wine(ws_cache, fc_cache, api_key, q[1], q[2], Country,
                            use_crawler, TRUE, x)} :
           /\ ws_cache' = f.ws
           /\ fc_cache' = f.fc
           /\ last' = [NoCall EXCEPT !.op = "fetch_wine", !.name = q[1],
                                     !.vintage = q[2], !.fetched = TRUE,
                                     !.cache_hit = f.cache_hit, !.net = f.net,
                                     !.html = f.html, !.snapshot = f.wine,
                                     !.url = Some(f.url), !.served = Served(f.net, x)]
           /\ batch' = NoBatch
           /\ UNCHANGED <<wines, ws_wines, api_key, merge, pure, run, offers_tbl>>

Next == SearchWine \/ CreateWine \/ FetchWine

Spec == Init /\ [][Next]_vars

----------------------------------------------------------------------------
(* Batch fetching: the two caches, single fetches and batches *)

\* the urls handed to fetch_html and batch_fetch_html
BatchUrls == {UrlVintage, UrlOther}

BatchInputs == UNION {[1..n -> BatchUrls] : n \in 0..MaxBatch}

InitBatch ==
    /\ wines = <<>>
    /\ ws_wines = {}
    /\ ws_cache = EmptyCache
    /\ fc_cache = EmptyCache
    /\ api_key \in BOOLEAN
    /\ last = NoCall
    /\ batch = NoBatch
    /\ merge = NoMerge
    /\ pure = NoPure
    /\ run = NoRun
    /\ offers_tbl = <<>>

\* fetch_html(url, use_crawler, use_cache=True) for a url of U
FetchHtmlOn(U) ==
    \E url \in U, use_crawler \in BOOLEAN :
      \E x \in Exchanges(url) :
      \E f \in {fetch_html(ws_cache, fc_cache, api_key, url, use_crawler, TRUE, x)} :
           /\ ws_cache' = f.ws
           /\ fc_cache' = f.fc
           /\ last' = [NoCall EXCEPT !.op = "fetch_html", !.fetched = TRUE,
                                     !.cache_hit = f.cache_hit, !.net = f.net,
                                     !.html = f.html, !.url = Some(url),
                                     !.served = Served(f.net, x)]
           /\ batch' = NoBatch
           /\ UNCHANGED <<wines, ws_wines, api_key, merge, pure, run, offers_tbl>>

FetchHtml == FetchHtmlOn(BatchUrls)

\* the positions of a batch whose task talks to the network
BatchCalls(ws, fc, key, urls, use_crawler, use_cache) ==
    {i \in (1..Len(urls)) \ BatchCached(ws, urls, use_cache) :
        use_crawler => (key /\ ~Truthy(load_from_cache(fc, urls[i])))}

\* one exchange for every task that talks to the network
RECURSIVE BatchExchanges(_, _, _)
BatchExchanges(urls, calls, n) ==
    IF n = 0 THEN {<<>>}
    ELSE {Append(xs, x) : xs \in BatchExchanges(urls, calls, n - 1),
                          x \in IF n \in calls THEN Exchanges(urls[n])
                                              ELSE {NoExchange}}

\* the completion orders that can differ in their effect: the saves of two
\* tasks meet only in the cache file of a url both of them fetched, and only
\* the direct branch has markup to save
BatchOrders(urls, calls, use_crawler, use_cache, xs) ==
    IF /\ ~use_crawler /\ use_cache
       /\ \E i, j \in calls : /\ i # j /\ urls[i] = urls[j]
                              /\ xs[i].ok /\ xs[j].ok /\ xs[i].body # xs[j].body
    THEN Orders(Len(urls))
    ELSE {[i \in 1..Len(urls) |-> i]}

\* batch_fetch_html(urls, use_crawler, use_cache) for a url list of inputs
BatchFetchHtmlOn(inputs) ==
    \E urls \in inputs, use_crawler \in BOOLEAN, use_cache \in BOOLEAN :
      LET n == Len(urls)
          calls == BatchCalls(ws_cache, fc_cache, api_key, urls, use_crawler, use_cache)
      IN \E xs \in BatchExchanges(urls, calls, n) :
         \E order \in BatchOrders(urls, calls, use_crawler, use_cache, xs) :
           /\ \E b \in {batch_fetch_html(ws_cache, fc_cache, api_key, urls, use_crawler,
                                           use_cache, xs, order)} :
                 /\ ws_cache' = b.ws
                 /\ fc_cache' = b.fc
                 /\ batch' = [done |-> TRUE, urls |-> urls, use_crawler |-> use_crawler,
                              use_cache |-> use_cache,
                              cached |-> {i \in 1..n :
                                            Truthy(load_from_cache(ws_cache, urls[i]))},
                              proxy_cached |-> {i \in 1..n :
                                            Truthy(load_from_cache(fc_cache, urls[i]))},
                              served |-> [i \in 1..n |->
                                            IF i \in calls /\ xs[i].ok
                                            THEN Some(xs[i].body) ELSE NoneV],
                              results |-> b.results, net |-> b.net,
                              writes |-> b.writes]
           /\ last' = NoCall
           /\ UNCHANGED <<wines, ws_wines, api_key, merge, pure, run, offers_tbl>>

BatchFetchHtml == BatchFetchHtmlOn(BatchInputs)

NextBatch == FetchHtml \/ BatchFetchHtml

SpecBatch == InitBatch /\ [][NextBatch]_vars

----------------------------------------------------------------------------
(* The page cache of one url whose page changes between requests *)

\* batches naming the one url once or more
PlainInputs == UNION {[1..n -> {UrlPlain}] : n \in 0..MaxBatch}

InitCache ==
    /\ wines = <<>>
    /\ ws_wines = {}
    /\ ws_cache = EmptyCache
    /\ fc_cache = EmptyCache
    /\ api_key \in BOOLEAN
    /\ last = NoCall
    /\ batch = NoBatch
    /\ merge = NoMerge
    /\ pure = NoPure
    /\ run = NoRun
    /\ offers_tbl = <<>>

FetchPlain == FetchHtmlOn({UrlPlain})

BatchFetchPlain == BatchFetchHtmlOn(PlainInputs)

NextCache == FetchPlain \/ BatchFetchPlain

SpecCache == InitCache /\ [][NextCache]_vars

----------------------------------------------------------------------------
(* Field merging *)

InitMerge ==
    /\ wines = <<>>
    /\ ws_wines = {}
    /\ ws_cache = EmptyCache
    /\ fc_cache = EmptyCache
    /\ api_key = FALSE
    /\ last = NoCall
    /\ batch = NoBatch
    /\ merge = NoMerge
    /\ pure = NoPure
    /\ run = NoRun
    /\ offers_tbl = <<>>

MergeWineData ==
    \E primary_data \in Dicts({NoneV, Some("x")}),
       secondary_data \in Dicts({NoneV, Some("x"), Some("y")}) :
        /\ merge' = [done |-> TRUE, primary |-> primary_data,
                     secondary |-> secondary_data,
                     merged |-> merge_wine_data(primary_data, secondary_data)]
        /\ UNCHANGED <<wines, ws_wines, ws_cache, fc_cache, api_key, last, batch, pure, run, offers_tbl>>

NextMerge == MergeWineData

SpecMerge == InitMerge /\ [][NextMerge]_vars

----------------------------------------------------------------------------
(* URL composition on its own *)

\* most pieces a keyword is put together from
MaxParts == 3

\* pieces of query text: words, years, a longer digit run, separators
KeywordParts ==
    { <<"a", "b">>, <<"2", "0", "1", "5">>, <<"1", "9", "9", "8", "7">>,
      <<" ">>, <<"(">>, <<")">>, <<",">> }

RECURSIVE Concat(_)
Concat(parts) == IF parts = <<>> THEN <<>> ELSE Head(parts) \o Concat(Tail(parts))

\* 'Chateau Lafite (2015)'; the accented a is the one character "a^"
LafiteQuery ==
    <<"C", "h", "a^", "t", "e", "a", "u", " ", "L", "a", "f", "i", "t", "e", " ",
      "(", "2", "0", "1", "5", ")">>

Keywords ==
    {Concat(ps) : ps \in UNION {[1..n -> KeywordParts] : n \in 0..MaxParts}}
        \cup {LafiteQuery}

\* 0 is what `not vintage` takes for no vintage, like "" and None
Vintages == {NoneV, Some(0), Some(2020)}

Countries == {Country, <<"-">>}

InitCompose ==
    /\ wines = <<>>
    /\ ws_wines = {}
    /\ ws_cache = EmptyCache
    /\ fc_cache = EmptyCache
    /\ api_key = FALSE
    /\ last = NoCall
    /\ batch = NoBatch
    /\ merge = NoMerge
    /\ pure \in [op : {"compose_search_url"}, done : {FALSE}, keyword : Keywords,
                 vintage : Vintages, country : Countries,
                 include_auction : BOOLEAN, url : {<<>>}]
    /\ run = NoRun
    /\ offers_tbl = <<>>

ComposeSearchUrl ==
    /\ pure.op = "compose_search_url"
    /\ ~pure.done
    /\ pure' = [pure EXCEPT !.done = TRUE,
                            !.url = compose_search_url(pure.keyword, pure.vintage,
                                                       pure.country,
                                                       pure.include_auction)]
    /\ UNCHANGED <<wines, ws_wines, ws_cache, fc_cache, api_key, last, batch, merge, run, offers_tbl>>

NextCompose == ComposeSearchUrl

SpecCompose == InitCompose /\ [][NextCompose]_vars

----------------------------------------------------------------------------
(* Fusion on its own: a page is parsed and the snapshot converted *)

\* most pieces a page heading is put together from
MaxNameParts == 3

\* pieces of heading text: a year, the digit 1, a letter, a blank
NameParts == { <<"2", "0", "1", "8">>, <<"1">>, <<"A">>, <<" ">> }

Headings ==
    {Concat(ps) : ps \in UNION {[1..n -> NameParts] : n \in 1..MaxNameParts}}

\* pages with a heading; og:url carries /2018/ or no year at all
FusionPages ==
    [wellformed : {TRUE}, empty : {FALSE}, h1_id : {Some(7)},
     h1_text : {Some(h) : h \in Headings}, og_year : {NoneV, Some(2018)},
     producer : {NoneV}, offers : {NoOffersBlock}]

InitConvert ==
    /\ wines = <<>>
    /\ ws_wines = {}
    /\ ws_cache = EmptyCache
    /\ fc_cache = EmptyCache
    /\ api_key = FALSE
    /\ last = NoCall
    /\ batch = NoBatch
    /\ merge = NoMerge
    /\ pure \in [op : {"convert_wine_searcher_to_wine"}, done : {FALSE},
                 html : {Some(m) : m \in FusionPages}, snapshot : {NoneV},
                 wine : {NoneV}]
    /\ run = NoRun
    /\ offers_tbl = <<>>

\* wine_model = convert_wine_searcher_to_wine(wine_searcher_wine) on the
\* snapshot parse_wine_searcher_html built from the page
ConvertWineSearcherToWine ==
    /\ pure.op = "convert_wine_searcher_to_wine"
    /\ ~pure.done
    /\ \E ws \in {parse_wine_searcher_html(pure.html)} :
         /\ ~IsNone(ws)
         /\ ~ConvertRaises(Val(ws))
         /\ pure' = [pure EXCEPT !.done = TRUE, !.snapshot = ws,
                                 !.wine = Some(convert_wine_searcher_to_wine(Val(ws)))]
    /\ UNCHANGED <<wines, ws_wines, ws_cache, fc_cache, api_key, last, batch, merge, run, offers_tbl>>

NextConvert == ConvertWineSearcherToWine

SpecConvert == InitConvert /\ [][NextConvert]_vars

----------------------------------------------------------------------------
(* The offers parser on its own *)

\* most offer cards in a block
MaxCards == 3

\* offer cards: without a price section, without a main price, priced with
\* and without the currency symbol, with another currency's symbol, with an
\* empty price text, with a unit price, with a unit price that is no number
OfferCards ==
    { [section |-> FALSE, main |-> NoneV, secondary |-> NoneV],
      [section |-> TRUE, main |-> NoneV, secondary |-> NoneV],
      [section |-> TRUE, main |-> Some(<<"$", "2", "0", ".", "0">>), secondary |-> NoneV],
      [section |-> TRUE, main |-> Some(<<"2", "0", ".", "0">>), secondary |-> NoneV],
      [section |-> TRUE, main |-> Some(<<"E", "9">>), secondary |-> NoneV],
      [section |-> TRUE, main |-> Some(<<>>), secondary |-> NoneV],
      [section |-> TRUE, main |-> Some(<<" ", "$", "3", "0", " ">>), secondary |-> NoneV],
      [section |-> TRUE, main |-> Some(<<"$", "1", ",", "2", "0", "0">>),
       secondary |-> Some(<<"$", "1", "5", ".", "5", "/", "b">>)],
      [section |-> TRUE, main |-> Some(<<"$", "3", "0">>),
       secondary |-> Some(<<"/", "b">>)] }

CountTexts == {NoneV, Some(<<"2", " ", "o">>), Some(<<"o">>)}

OfferBlocks ==
    [present : BOOLEAN, expanded : BOOLEAN, count_text : CountTexts,
     cards : UNION {[1..n -> OfferCards] : n \in 0..MaxCards}]

InitOffers ==
    /\ wines = <<>>
    /\ ws_wines = {}
    /\ ws_cache = EmptyCache
    /\ fc_cache = EmptyCache
    /\ api_key = FALSE
    /\ last = NoCall
    /\ batch = NoBatch
    /\ merge = NoMerge
    /\ pure \in [op : {"parse_wine_searcher_html"}, done : {FALSE},
                 block : OfferBlocks, parsed : {NoneV}, snapshot : {NoneV}]
    /\ run = NoRun
    /\ offers_tbl = <<>>

\* parse_wine_searcher_html on a page with the block, the result of the
\* parse_offers_html call it makes kept beside the snapshot
ParseWineSearcherHtml ==
    /\ pure.op = "parse_wine_searcher_html"
    /\ ~pure.done
    /\ pure' = [pure EXCEPT
                  !.done = TRUE,
                  !.parsed = Some(parse_offers_html(pure.block)),
                  !.snapshot = parse_wine_searcher_html(
                                  Some([PageWine EXCEPT !.offers = pure.block]))]
    /\ UNCHANGED <<wines, ws_wines, ws_cache, fc_cache, api_key, last, batch, merge, run, offers_tbl>>

NextOffers == ParseWineSearcherHtml

SpecOffers == InitOffers /\ [][NextOffers]_vars

----------------------------------------------------------------------------
(* update_wine and get_wine on a catalog with timestamps *)

\* the clock readings datetime.now() may give after the rows were created
Times == {1, 2}

\* the catalog the updates start from: rows created at time 0
StampedRows ==
    << [id |-> 1, name |-> <<"n", "1">>, vintage |-> Some(2021),
        winery |-> Some(<<"o">>), wine_searcher_id |-> Some(<<"7", "_", "1">>),
        name_alias |-> Some(<< <<"q">> >>), updated_at |-> 0],
       [id |-> 2, name |-> <<"n", "1">>, vintage |-> NoneV,
        winery |-> NoneV, wine_searcher_id |-> NoneV,
        name_alias |-> NoneV, updated_at |-> 0] >>

\* the ids update_wine and get_wine are called with: those of the rows and
\* one that no row has
CalledIds == 1..(Len(StampedRows) + 1)

\* what a WineUpdate may set a field to
UpdateValues(f) ==
    IF f = "name" THEN {<<"n", "2">>}
    ELSE {NoneV, Some(<<"w">>)}

\* the model_dump(exclude_unset=True) of the WineUpdate objects
WineUpdates ==
    UNION {{u \in [K -> UpdateValues("name") \cup UpdateValues("winery")] :
               \A f \in K : u[f] \in UpdateValues(f)} : K \in SUBSET {"name", "winery"}}

InitUpdate ==
    /\ wines = StampedRows
    /\ ws_wines = {}
    /\ ws_cache = EmptyCache
    /\ fc_cache = EmptyCache
    /\ api_key = FALSE
    /\ last = NoCall
    /\ batch = NoBatch
    /\ merge = NoMerge
    /\ pure = NoPure
    /\ run = NoRun
    /\ offers_tbl = <<>>

UpdateWine ==
    \E wine_id \in CalledIds, wine_data \in WineUpdates, now \in Times :
        /\ \A i \in Ids(wines) : wines[i].updated_at <= now
        /\ wines' = update_wine(wines, wine_id, wine_data, now).tbl
        /\ last' = [NoCall EXCEPT !.op = "update_wine", !.arg = Some(wine_id),
                                  !.result = update_wine(wines, wine_id, wine_data,
                                                         now).wine]
        /\ pure' = [op |-> "update_wine", wine_data |-> wine_data]
        /\ UNCHANGED <<ws_wines, ws_cache, fc_cache, api_key, batch, merge, run, offers_tbl>>

GetWine ==
    \E wine_id \in CalledIds :
        /\ last' = [NoCall EXCEPT !.op = "get_wine", !.arg = Some(wine_id),
                                  !.result = get_wine(wines, wine_id)]
        /\ pure' = NoPure
        /\ UNCHANGED <<wines, ws_wines, ws_cache, fc_cache, api_key, batch, merge, run, offers_tbl>>

NextUpdate == UpdateWine \/ GetWine

SpecUpdate == InitUpdate /\ [][NextUpdate]_vars

----------------------------------------------------------------------------
(* save_wine_searcher on snapshots that carry offers *)

MaxOffers == 4

SaveCards ==
    { [section |-> TRUE, main |-> Some(<<"$", "2", "0", ".", "0">>), secondary |-> NoneV],
      [section |-> TRUE, main |-> Some(<<"$", "3", "0">>), secondary |-> NoneV] }

SaveBlocks ==
    [present : {TRUE}, expanded : {FALSE}, count_text : {NoneV},
     cards : UNION {[1..n -> SaveCards] : n \in 0..2}]

\* pages of one wine in two vintages, each with an offers block
SavePages ==
    {[PageWine EXCEPT !.offers = b, !.og_year = Some(y)] :
        b \in SaveBlocks, y \in {2018, 2019}}

InitSave ==
    /\ wines = <<>>
    /\ ws_wines = {}
    /\ ws_cache = EmptyCache
    /\ fc_cache = EmptyCache
    /\ api_key = FALSE
    /\ last = NoCall
    /\ batch = NoBatch
    /\ merge = NoMerge
    /\ pure = NoPure
    /\ run = NoRun
    /\ offers_tbl = <<>>

\* save_wine_searcher(wine_searcher_wine) on the snapshot parsed from a page,
\* as search_wine calls it
SaveWineSearcher ==
    \E page \in SavePages :
    \E ws \in {Val(parse_wine_searcher_html(Some(page)))} :
    \E o \in SaveOffersOutcomes(offers_tbl, ws) :
        /\ Len(o.tbl) <= MaxOffers
        /\ ws_wines' = save_wine_searcher(ws_wines, ws)
        /\ offers_tbl' = o.tbl
        /\ last' = [NoCall EXCEPT !.op = "save_wine_searcher",
                                  !.snapshot = Some(ws), !.raised = o.raised]
        /\ UNCHANGED <<wines, ws_cache, fc_cache, api_key, batch, merge, pure, run>>

NextSave == SaveWineSearcher

SpecSave == InitSave /\ [][NextSave]_vars

----------------------------------------------------------------------------
(* The limiter of a batch fetch: asyncio.Semaphore around each page fetch *)

MaxTasks == 11

\* concurrency = min(10, len(urls_to_fetch)) in batch_fetch_html;
\* concurrency: int = 5 in batch_fetch_urls
LimiterWidth(use_crawler, n) ==
    IF use_crawler THEN 5 ELSE IF n < 10 THEN n ELSE 10

\* the tasks gather() has started that have not yet passed `async with semaphore`
Waiting(r) == (1..r.n) \ (r.entered \cup r.finished)

\* leaving `async with semaphore` on an exception that skips the release
ReleaseOnError_Leak(value) == value

\* leaving `async with semaphore` on an exception: __aexit__ releases
ReleaseOnError(value) == value + 1

InitLimiter ==
    /\ wines = <<>>
    /\ ws_wines = {}
    /\ ws_cache = EmptyCache
    /\ fc_cache = EmptyCache
    /\ api_key \in BOOLEAN
    /\ last = NoCall
    /\ batch = NoBatch
    /\ merge = NoMerge
    /\ pure = NoPure
    /\ run = NoRun
    /\ offers_tbl = <<>>

\* the batch reaches asyncio.gather with n urls to fetch, none in a cache
GatherBegin ==
    /\ run.pc \in {"idle", "done"}
    /\ \E use_crawler \in BOOLEAN, n \in 1..MaxTasks :
         run' = [pc |-> "gather", use_crawler |-> use_crawler, n |-> n,
                 width |-> LimiterWidth(use_crawler, n),
                 value |-> LimiterWidth(use_crawler, n),
                 entered |-> {}, finished |-> {}, errored |-> FALSE,
                 after_error |-> FALSE]
    /\ UNCHANGED <<wines, ws_wines, ws_cache, fc_cache, api_key, last, batch, merge, pure, offers_tbl>>

\* `async with semaphore:` entered by the task that has waited longest (the
\* tasks start in list order and the semaphore wakes its waiters in order)
LimiterAcquire ==
    /\ run.pc = "gather"
    /\ Waiting(run) # {}
    /\ run.value > 0
    /\ LET t == CHOOSE w \in Waiting(run) : \A v \in Waiting(run) : w <= v
       IN run' = [run EXCEPT !.value = @ - 1,
                             !.entered = @ \cup {t},
                             !.after_error = @ \/ run.errored]
    /\ UNCHANGED <<wines, ws_wines, ws_cache, fc_cache, api_key, last, batch, merge, pure, offers_tbl>>

\* the fetch of a task returns (markup, or None after an error fetch_html or
\* fetch_url caught itself) and the task leaves the block
LimiterReturn ==
    /\ run.pc = "gather"
    /\ \E t \in run.entered, failed \in BOOLEAN :
         run' = [run EXCEPT !.value = @ + 1,
                            !.entered = @ \ {t},
                            !.finished = @ \cup {t},
                            !.errored = @ \/ failed]
    /\ UNCHANGED <<wines, ws_wines, ws_cache, fc_cache, api_key, last, batch, merge, pure, offers_tbl>>

\* fetch_url raises inside the block: ValueError, FIRECRAWL_API_KEY not set
LimiterRaise ==
    /\ run.pc = "gather"
    /\ run.use_crawler /\ ~api_key
    /\ \E t \in run.entered :
         run' = [run EXCEPT !.value = ReleaseOnError(@),
                            !.entered = @ \ {t},
                            !.finished = @ \cup {t},
                            !.errored = TRUE]
    /\ UNCHANGED <<wines, ws_wines, ws_cache, fc_cache, api_key, last, batch, merge, pure, offers_tbl>>

\* gather() returns: every task has finished
GatherEnd ==
    /\ run.pc = "gather"
    /\ run.finished = 1..run.n
    /\ run' = [run EXCEPT !.pc = "done"]
    /\ UNCHANGED <<wines, ws_wines, ws_cache, fc_cache, api_key, last, batch, merge, pure, offers_tbl>>

NextLimiter ==
    GatherBegin \/ LimiterAcquire \/ LimiterReturn \/ LimiterRaise \/ GatherEnd

SpecLimiter == InitLimiter /\ [][NextLimiter]_vars

\* the event loop runs every task that can take a step
SpecLimiterFair == SpecLimiter /\ WF_vars(NextLimiter)

----------------------------------------------------------------------------
(* search_wine step by step: one step for each awaited call *)

InitSteps ==
    /\ wines = <<>>
    /\ ws_wines = {}
    /\ ws_cache = EmptyCache
    /\ fc_cache = EmptyCache
    /\ api_key = FALSE
    /\ last = NoCall
    /\ batch = NoBatch
    /\ merge = NoMerge
    /\ pure = NoPure
    /\ run = NoRun
    /\ offers_tbl = <<>>

\* no call is under way
Idle == run.pc \in {"idle", "done"}

\* the record of the call under way, as it stands after fetch_wine
RunCall ==
    LET f == Val(run.fetch)
    IN [NoCall EXCEPT !.op = "search_wine", !.name = run.name,
                      !.vintage = run.vintage, !.fetched = TRUE,
                      !.cache_hit = f.cache_hit, !.net = f.net, !.html = f.html,
                      !.snapshot = f.wine,
                      !.first = FirstOf(last, run.name, run.vintage),
                      !.url = Some(f.url), !.served = Served(f.net, Val(run.x))]

\* `if db_wine: return db_wine`, else on to fetch_wine
AfterLocal_AlwaysFetch(hits) == "fetch"

AfterLocal(hits) == IF hits # {} THEN "done" ELSE "fetch"

\* `if wine_searcher_wine:` Case 1, else Case 2
AfterFetch(wine) == IF ~IsNone(wine) THEN "persist" ELSE "placeholder"

\* search_wine(wine_name, vintage) is called
StepBegin ==
    /\ Idle
    /\ \E q \in Queries :
         run' = [NoRun EXCEPT !.pc = "local", !.name = q[1], !.vintage = q[2],
                              !.wines0 = wines, !.ws_wines0 = ws_wines]
    /\ UNCHANGED <<wines, ws_wines, ws_cache, fc_cache, api_key, last, batch, merge, pure, offers_tbl>>

\* await search_wine_from_db(...); `if db_wine: return db_wine`
StepLocal ==
    /\ run.pc = "local"
    /\ LET hits == search_wine_from_db(wines, run.name, run.vintage)
       IN IF hits # {}
          THEN /\ \E r \in hits :
                    last' = [NoCall EXCEPT !.op = "search_wine", !.name = run.name,
                                           !.vintage = run.vintage,
                                           !.result = Some(wines[r]),
                                           !.local_hit = TRUE,
                                           !.first = FirstOf(last, run.name,
                                                             run.vintage)]
          ELSE last' = last
    /\ run' = [run EXCEPT
                 !.pc = AfterLocal(search_wine_from_db(wines, run.name, run.vintage)),
                 !.trace = Append(@, "local")]
    /\ UNCHANGED <<wines, ws_wines, ws_cache, fc_cache, api_key, batch, merge, pure, offers_tbl>>

\* await fetch_wine(wine_name=wine_name, vintage=vintage)
StepFetch ==
    /\ run.pc = "fetch"
    /\ \E x \in Exchanges(compose_search_url(run.name, run.vintage, Country, FALSE)) :
       \E f \in {fetch_wine(ws_cache, fc_cache, api_key, run.name, run.vintage,
                             Country, TRUE, TRUE, x)} :
            /\ ws_cache' = f.ws
            /\ fc_cache' = f.fc
            /\ run' = [run EXCEPT
                         !.pc = AfterFetch(f.wine),
                         !.fetch = Some([wine |-> f.wine, url |-> f.url,
                                         html |-> f.html, net |-> f.net,
                                         cache_hit |-> f.cache_hit]),
                         !.x = Some(x),
                         !.trace = Append(@, "fetch")]
    /\ UNCHANGED <<wines, ws_wines, api_key, last, batch, merge, pure, offers_tbl>>

\* await save_wine_searcher(wine_searcher_wine)
StepPersist ==
    /\ run.pc = "persist"
    /\ ws_wines' = save_wine_searcher(ws_wines, Val(Val(run.fetch).wine))
    /\ \E o \in SaveOffersOutcomes(offers_tbl, Val(Val(run.fetch).wine)) :
         offers_tbl' = o.tbl
    /\ run' = [run EXCEPT !.pc = "fuse", !.trace = Append(@, "persist")]
    /\ UNCHANGED <<wines, ws_cache, fc_cache, api_key, last, batch, merge, pure>>

\* convert_wine_searcher_to_wine, the lookup by wine_searcher_id, then the
\* alias bookkeeping on the row found or create_wine
StepFuse ==
    /\ run.pc = "fuse"
    /\ LET ws == Val(Val(run.fetch).wine)
       IN IF ConvertRaises(ws)
          THEN /\ wines' = wines
               /\ last' = [RunCall EXCEPT !.raised = TRUE]
          ELSE IF QueryBySearcherId(wines, ws.id) # {}
          THEN \E e \in QueryBySearcherId(wines, ws.id) :
                  SearchWineExisting(RunCall, e, run.name)
          ELSE SearchWineCreate(RunCall, convert_wine_searcher_to_wine(ws), run.name)
    /\ run' = [run EXCEPT !.pc = "done", !.trace = Append(@, "fuse")]
    /\ UNCHANGED <<ws_wines, ws_cache, fc_cache, api_key, batch, merge, pure, offers_tbl>>

\* create_wine(WineCreate(name=wine_name, vintage=vintage))
StepPlaceholder ==
    /\ run.pc = "placeholder"
    /\ SearchWineCreate(RunCall,
                        [name |-> run.name, vintage |-> run.vintage, winery |-> NoneV,
                         wine_searcher_id |-> NoneV, name_alias |-> NoneV],
                        run.name)
    /\ run' = [run EXCEPT !.pc = "done", !.trace = Append(@, "placeholder")]
    /\ UNCHANGED <<ws_wines, ws_cache, fc_cache, api_key, batch, merge, pure, offers_tbl>>

\* a fetch_wine over the direct transport between two calls
StepWarm == Idle /\ FetchWine

NextSteps ==
    \/ StepBegin \/ StepLocal \/ StepFetch \/ StepPersist \/ StepFuse
    \/ StepPlaceholder \/ StepWarm

SpecSteps == InitSteps /\ [][NextSteps]_vars

----------------------------------------------------------------------------
(* ai_search_wines: one search_wine task per extracted wine, run together  *)
(* by asyncio.gather on the one event loop.  A task runs until it awaits   *)
(* something that is not ready; the only such point in search_wine is the  *)
(* post to the proxy inside fetch_wine                                     *)

\* tasks of one gather
Tasks == 1..2

\* calls of ai_search_wines in one behaviour
MaxGathers == 1

\* the calls of ai_search_wines begun so far
Gathers(r) == IF r.pc = "idle" THEN 0 ELSE r.gathers

NoTask == [pc |-> "ready", missed |-> FALSE, call |-> NoCall]

InitRace ==
    /\ wines = <<>>
    /\ ws_wines = {}
    /\ ws_cache = EmptyCache
    /\ fc_cache = EmptyCache
    /\ api_key \in BOOLEAN
    /\ last = NoCall
    /\ batch = NoBatch
    /\ merge = NoMerge
    /\ pure = NoPure
    /\ run = NoRun
    /\ offers_tbl = <<>>

\* the call record of a task past fetch_wine
RaceCall(f, x) ==
    [NoCall EXCEPT !.op = "search_wine", !.name = run.name,
                   !.vintage = run.vintage, !.fetched = TRUE,
                   !.cache_hit = f.cache_hit, !.net = f.net, !.html = f.html,
                   !.snapshot = f.wine,
                   !.first = FirstOf(last, run.name, run.vintage),
                   !.url = Some(f.url), !.served = Served(f.net, x)]

\* search_tasks = [search_wine(...) for ai_wine in ai_wines] with the same
\* wine extracted twice; gather schedules the tasks
RaceBegin ==
    /\ Idle
    /\ Gathers(run) < MaxGathers
    /\ \E q \in Queries :
         run' = [pc |-> "race", name |-> q[1], vintage |-> q[2],
                 gathers |-> Gathers(run) + 1,
                 wines0 |-> wines, tasks |-> [t \in Tasks |-> NoTask]]
    /\ UNCHANGED <<wines, ws_wines, ws_cache, fc_cache, api_key, last, batch, merge, pure, offers_tbl>>

\* task p runs for the first time, the tasks created before it having run:
\* the local lookup, then fetch_wine up to the post, or to the end of
\* search_wine when fetch_wine does not suspend
TaskStart(p) ==
    /\ run.pc = "race"
    /\ run.tasks[p].pc = "ready"
    /\ \A o \in Tasks : o < p => run.tasks[o].pc # "ready"
    /\ \E hits \in {search_wine_from_db(wines, run.name, run.vintage)} :
         IF hits # {}
         THEN /\ \E r \in hits :
                   last' = [NoCall EXCEPT !.op = "search_wine", !.name = run.name,
                                          !.vintage = run.vintage,
                                          !.result = Some(wines[r]),
                                          !.local_hit = TRUE,
                                          !.first = FirstOf(last, run.name,
                                                            run.vintage)]
              /\ run' = [run EXCEPT !.tasks[p] = [pc |-> "done", missed |-> FALSE,
                                                  call |-> last']]
              /\ UNCHANGED <<wines, ws_wines, ws_cache, fc_cache, offers_tbl>>
         ELSE IF AwaitsProxy(ws_cache, fc_cache, api_key,
                             compose_search_url(run.name, run.vintage, Country, FALSE),
                             TRUE)
         THEN /\ run' = [run EXCEPT !.tasks[p] = [pc |-> "post", missed |-> TRUE,
                                                  call |-> NoCall]]
              /\ UNCHANGED <<wines, ws_wines, ws_cache, fc_cache, last, offers_tbl>>
         ELSE \E f \in {fetch_wine(ws_cache, fc_cache, api_key, run.name,
                                    run.vintage, Country, TRUE, TRUE, NoExchange)} :
                /\ ws_cache' = f.ws
                /\ fc_cache' = f.fc
                /\ SearchWineFetched(RaceCall(f, NoExchange), f.wine, run.name,
                                     run.vintage)
                /\ run' = [run EXCEPT !.tasks[p] = [pc |-> "done", missed |-> TRUE,
                                                    call |-> last']]
    /\ UNCHANGED <<api_key, batch, merge, pure>>

\* the proxy's reply to task p arrives: the task runs to the end of search_wine.
\* The loop polls for replies only when no task is ready to run
TaskResume(p) ==
    /\ run.pc = "race"
    /\ run.tasks[p].pc = "post"
    /\ \A o \in Tasks : run.tasks[o].pc # "ready"
    /\ \E x \in Exchanges(compose_search_url(run.name, run.vintage, Country, FALSE)) :
       \E f \in {fetch_wine_reply(ws_cache, fc_cache, run.name, run.vintage,
                                   Country, TRUE, x)} :
            /\ ws_cache' = f.ws
            /\ fc_cache' = f.fc
            /\ SearchWineFetched(RaceCall(f, x), f.wine, run.name, run.vintage)
            /\ run' = [run EXCEPT !.tasks[p] = [pc |-> "done", missed |-> TRUE,
                                                call |-> last']]
    /\ UNCHANGED <<api_key, batch, merge, pure>>

\* found_wines = await asyncio.gather(*search_tasks) returns
RaceEnd ==
    /\ run.pc = "race"
    /\ \A t \in Tasks : run.tasks[t].pc = "done"
    /\ run' = [run EXCEPT !.pc = "done"]
    /\ UNCHANGED <<wines, ws_wines, ws_cache, fc_cache, api_key, last, batch, merge, pure, offers_tbl>>

\* a fetch_wine between two gathers
RaceWarm == Idle /\ FetchWine

NextRace ==
    \/ RaceBegin \/ (\E p \in Tasks : TaskStart(p)) \/ (\E p \in Tasks : TaskResume(p))
    \/ RaceEnd \/ RaceWarm

SpecRace == InitRace /\ [][NextRace]_vars

----------------------------------------------------------------------------
(* Properties of search_wine and create_wine *)

IsSearch(call) == call.op = "search_wine"

\* a record that carries nothing but the name and vintage of the query
IsPlaceholder(row, wine_name, vintage) ==
    /\ row.name = wine_name
    /\ row.vintage = vintage
    /\ IsNone(row.winery)
    /\ IsNone(row.wine_searcher_id)
    /\ IsNone(row.name_alias)

\* the alias list of a row, [] for None
AliasesOf(row) == IF IsNone(row.name_alias) THEN {} ELSE Range(Val(row.name_alias))

\* markup that parses but has no <h1>: neither name nor external id
NoHeading(html) ==
    /\ Truthy(html)
    /\ Val(html).wellformed
    /\ IsNone(Val(html).h1_id)
    /\ IsNone(Val(html).h1_text)

\* C1: every search_wine call returns a catalog record, whatever the external
\* lookup did, and the record is a freshly inserted placeholder when the
\* lookup gave no snapshot.
C1_ResolveAlwaysReturnsRecord ==
    IsSearch(last) =>
        /\ ~last.raised
        /\ ~IsNone(last.result)
        /\ (last.fetched /\ IsNone(last.snapshot)) =>
              /\ last.inserted
              /\ IsPlaceholder(Val(last.result), last.name, last.vintage)

\* C9: a page without a heading is unparseable: search_wine gets no snapshot
\* from it, stores nothing derived from it, and returns a placeholder
\* without raising.
C9_NoHeadingDegradesToPlaceholder ==
    (IsSearch(last) /\ last.fetched /\ NoHeading(last.html)) =>
        /\ IsNone(last.snapshot)
        /\ ~last.raised
        /\ ~IsNone(last.result)
        /\ IsPlaceholder(Val(last.result), last.name, last.vintage)
        /\ \A ws \in ws_wines : ~IsNone(ws.name)

\* C2 as stated: with a record whose alias list holds n in the catalog,
\* search_wine(n, None) returns a record whose alias list holds n and does
\* not touch the external source client.
C2_AliasRecordReturned ==
    [][(/\ IsSearch(last')
        /\ IsNone(last'.vintage)
        /\ \E i \in Ids(wines) : last'.name \in AliasesOf(wines[i]))
       => (/\ ~last'.fetched
           /\ ~IsNone(last'.result)
           /\ last'.name \in AliasesOf(Val(last'.result)))]_vars

\* C2 amended: with a record whose alias list holds n in the catalog,
\* search_wine(n, None) does not touch the external source client, changes no
\* table, and returns a catalog record: one named exactly n when such a
\* record exists, otherwise one whose alias list holds n.
C2_AliasHitStaysLocal ==
    [][(/\ IsSearch(last')
        /\ IsNone(last'.vintage)
        /\ \E i \in Ids(wines) : last'.name \in AliasesOf(wines[i]))
       => (/\ ~last'.fetched
           /\ last'.net = 0
           /\ UNCHANGED <<wines, ws_wines, ws_cache, fc_cache>>
           /\ ~IsNone(last'.result)
           /\ \E i \in Ids(wines) : wines[i] = Val(last'.result)
           /\ IF \E i \in Ids(wines) : wines[i].name = last'.name
              THEN Val(last'.result).name = last'.name
              ELSE last'.name \in AliasesOf(Val(last'.result)))]_vars

\* an alias hit happened while another record matched the name by substring
C2_Witness ==
    /\ IsSearch(last)
    /\ IsNone(last.vintage)
    /\ last.local_hit
    /\ Val(last.result).name # last.name
    /\ last.name \in AliasesOf(Val(last.result))
    /\ \E i \in Ids(wines) :
          /\ wines[i].id # Val(last.result).id
          /\ last.name \notin AliasesOf(wines[i])
          /\ Contains([k \in 1..Len(wines[i].name) |-> Lower(wines[i].name[k])],
                      last.name)

\* rows whose wine_searcher_id is the text id
RowsWithSearcherId(tbl, id) ==
    {i \in Ids(tbl) : ~IsNone(tbl[i].wine_searcher_id)
                      /\ Val(tbl[i].wine_searcher_id) = id}

\* C3: a second search_wine with the name and vintage of the call before it,
\* which ended at a record for a snapshot, returns that same record and
\* leaves exactly one record with the snapshot's external id.
C3_SecondResolveSameRecord ==
    (IsSearch(last) /\ ~IsNone(last.first)) =>
        /\ ~last.raised
        /\ ~IsNone(last.result)
        /\ Val(last.result).id = Val(last.first).id
        /\ Cardinality(RowsWithSearcherId(wines, Val(last.first).snap)) = 1

\* the second call missed locally (the stored vintage differs from the
\* query's), read the snapshot again and found the record by external id
C3_Witness ==
    /\ IsSearch(last)
    /\ ~IsNone(last.first)
    /\ last.fetched
    /\ ~IsNone(last.snapshot)
    /\ ~last.inserted
    /\ Val(last.result).vintage # last.vintage

HasFields(row, w) ==
    /\ row.name = w.name
    /\ row.vintage = w.vintage
    /\ row.winery = w.winery
    /\ row.wine_searcher_id = w.wine_searcher_id
    /\ row.name_alias = w.name_alias

\* create_wine updated the row r.id in place with the payload w
UpdatedInPlace(old, new, r, w, match) ==
    /\ Len(new) = Len(old)
    /\ r.id \in match
    /\ new[r.id] = r
    /\ HasFields(r, w)
    /\ \A i \in Ids(old) : i # r.id => new[i] = old[i]

\* create_wine inserted the payload w as a new row r with a fresh id
InsertedFresh(old, new, r, w) ==
    /\ Len(new) = Len(old) + 1
    /\ r.id \notin Ids(old)
    /\ r.id \in Ids(new)
    /\ new[r.id] = r
    /\ HasFields(r, w)
    /\ \A i \in Ids(old) : new[i] = old[i]

LowerText(t) == [k \in 1..Len(t) |-> Lower(t[k])]

VintageMatches(row, vintage) == IsNone(vintage) \/ row.vintage = vintage

ExactClass(tbl, n, v) ==
    {i \in Ids(tbl) : VintageMatches(tbl[i], v) /\ tbl[i].name = n}

AliasClass(tbl, n, v) ==
    {i \in Ids(tbl) : VintageMatches(tbl[i], v) /\ n \in AliasesOf(tbl[i])}

SubstringClass(tbl, n, v) ==
    {i \in Ids(tbl) : /\ VintageMatches(tbl[i], v)
                      /\ Contains(LowerText(tbl[i].name), LowerText(n))}

\* C6: the local lookup of search_wine returns a record of the first
\* non-empty class among exact name, alias, case-insensitive substring, and
\* returns nothing exactly when the three classes are empty.
C6_FindLocalPriority ==
    [][IsSearch(last') =>
         LET e == ExactClass(wines, last'.name, last'.vintage)
             a == AliasClass(wines, last'.name, last'.vintage)
             p == SubstringClass(wines, last'.name, last'.vintage)
             best == IF e # {} THEN e ELSE IF a # {} THEN a ELSE p
         IN IF best = {}
            THEN ~last'.local_hit
            ELSE /\ last'.local_hit
                 /\ \E i \in best : wines[i] = Val(last'.result)]_vars

\* an exact-name record was returned while another record held the name as
\* an alias
C6_Witness ==
    /\ IsSearch(last)
    /\ last.local_hit
    /\ Val(last.result).name = last.name
    /\ \E i \in Ids(wines) :
          /\ i # Val(last.result).id
          /\ VintageMatches(wines[i], last.vintage)
          /\ last.name \in AliasesOf(wines[i])

\* C7: with a vintage given, the local lookup never returns a record of
\* another vintage, and returns nothing when no record of that vintage
\* matches the name.
C7_VintageFilter ==
    [][(IsSearch(last') /\ ~IsNone(last'.vintage)) =>
         /\ last'.local_hit => Val(last'.result).vintage = last'.vintage
         /\ (\A i \in Ids(wines) :
                (\/ wines[i].name = last'.name
                 \/ last'.name \in AliasesOf(wines[i])
                 \/ Contains(LowerText(wines[i].name), LowerText(last'.name)))
                => wines[i].vintage # last'.vintage)
            => ~last'.local_hit]_vars

\* the lookup with a vintage found nothing although records of other vintages
\* matched the name
C7_Witness ==
    /\ IsSearch(last)
    /\ ~IsNone(last.vintage)
    /\ ~last.local_hit
    /\ \E i \in Ids(wines) :
          /\ i # Val(last.result).id
          /\ wines[i].vintage # last.vintage
          /\ \/ wines[i].name = last.name
             \/ last.name \in AliasesOf(wines[i])

----------------------------------------------------------------------------
(* Field merge *)

\* the fields named as the ones the AI source has priority for
AiPriorityFields ==
    {"tasting_notes", "drinking_window", "winemaker_notes", "professional_reviews",
     "food_pairings"}

\* the key is present in the dictionary with a non-nil value
Filled(dict, key) == key \in DOMAIN dict /\ ~IsNone(dict[key])

----------------------------------------------------------------------------
(* Batch fetch *)

\* the positions of the last batch that had no page-cache entry
NotCached == (1..Len(batch.urls)) \ batch.cached

\* the results come back one per url, in the order of the urls: a cached
\* position carries its cache entry, any other non-nil result is markup the
\* site serves under the url at that position
InInputOrder ==
    /\ DOMAIN batch.results = 1..Len(batch.urls)
    /\ \A i \in batch.cached : batch.results[i] = load_from_cache(ws_cache, batch.urls[i])
    /\ \A i \in NotCached :
          ~IsNone(batch.results[i]) => Val(batch.results[i]) \in SiteBodies(batch.urls[i])

\* C10 (as stated): a batch fetch over N urls of which K have cache entries
\* performs exactly N - K network fetches and returns N results in input
\* order, the K cached ones filled without any network call
C10_BatchFetchesUncached ==
    (batch.done /\ batch.use_cache) =>
        /\ InInputOrder
        /\ batch.net = Len(batch.urls) - Cardinality(batch.cached)

\* C10 (amended): the batch returns N results in input order, the K cached
\* ones filled from the page cache without any network call; the direct
\* transport performs exactly N - K network fetches, and the crawling proxy
\* performs one for each not-cached url that has no entry in the proxy's own
\* cache when its API key is set, and none when it is not
C10_BatchFetchesByTransport ==
    (batch.done /\ batch.use_cache) =>
        /\ InInputOrder
        /\ batch.net <= Len(batch.urls) - Cardinality(batch.cached)
        /\ ~batch.use_crawler =>
              batch.net = Len(batch.urls) - Cardinality(batch.cached)
        /\ batch.use_crawler =>
              batch.net = IF api_key
                          THEN Cardinality(NotCached \ batch.proxy_cached)
                          ELSE 0

\* a direct batch of two urls, one of them cached, fetched the other one
C10_Witness ==
    /\ batch.done /\ batch.use_cache /\ ~batch.use_crawler
    /\ Len(batch.urls) = 2
    /\ Cardinality(batch.cached) = 1
    /\ batch.net = 1
    /\ \A i \in 1..2 : Truthy(batch.results[i])

\* a proxy batch whose not-cached url sits in the proxy's own cache
C10_ProxyCacheSkipsFetch ==
    /\ batch.done /\ batch.use_cache /\ batch.use_crawler /\ api_key
    /\ NotCached \cap batch.proxy_cached # {}

\* C11: in a batch fetch, direct or through the crawling proxy, every item
\* whose own fetch succeeded has its markup in the result whatever happened
\* to the other items, a failed item gives nil for that item only, and the
\* call returns one result per url
C11_BatchFailureIsPerItem ==
    batch.done =>
        /\ DOMAIN batch.results = 1..Len(batch.urls)
        /\ \A i \in 1..Len(batch.urls) :
              Truthy(batch.served[i]) => batch.results[i] = batch.served[i]

----------------------------------------------------------------------------
(* Single fetch and the page cache *)

\* the last call was a fetch_html, on its own or inside fetch_wine
IsFetch == last.op \in {"fetch_html", "fetch_wine"}

\* C12: a fetch with caching on whose url has a page-cache entry returns the
\* cached markup and makes no request, direct or through the proxy, and
\* leaves both caches as they were
C12_CacheHitMakesNoRequest ==
    [][(last'.op \in {"fetch_html", "fetch_wine"}
          /\ Truthy(ws_cache[Val(last'.url)]))
       => /\ last'.net = 0
          /\ last'.html = ws_cache[Val(last'.url)]
          /\ ws_cache' = ws_cache
          /\ fc_cache' = fc_cache]_vars

\* a fetch through the proxy, API key set, answered from the page cache
C12_Witness ==
    /\ last.op = "fetch_html" /\ last.cache_hit /\ api_key
    /\ last.net = 0
    /\ Truthy(last.html)
    /\ last.html = ws_cache[Val(last.url)]

\* C13: after a cache miss and a fetch that returned markup, direct or
\* through the proxy, the page cache holds that markup under the url, so
\* that the next request for the url is a cache hit
C13_FetchedMarkupIsCached ==
    (IsFetch /\ ~last.cache_hit /\ Truthy(last.served))
        => ws_cache[Val(last.url)] = last.served

----------------------------------------------------------------------------
(* Alias lists *)

\* no string occurs twice in the sequence
NoDuplicates(lst) == \A i, j \in 1..Len(lst) : i # j => lst[i] # lst[j]

\* C14: in every catalog state, the alias list of each record holds no
\* string twice and does not hold the record's own name
C14_AliasListsClean ==
    \A i \in Ids(wines) :
        ~IsNone(wines[i].name_alias) =>
            /\ NoDuplicates(Val(wines[i].name_alias))
            /\ wines[i].name \notin Range(Val(wines[i].name_alias))

\* a search_wine whose query was already an alias of the record it reached
\* through the external lookup left the alias list as it was
C14_Witness ==
    /\ IsSearch(last) /\ last.fetched /\ ~IsNone(last.snapshot)
    /\ ~last.raised /\ ~last.inserted
    /\ \E i \in Ids(wines) :
          /\ wines[i].id = Val(last.result).id
          /\ wines[i].name # last.name
          /\ wines[i].name_alias = Some(<<last.name>>)

----------------------------------------------------------------------------
(* URL composition *)

\* the call was made and came back
Composed == pure.op = "compose_search_url" /\ pure.done

\* a vintage argument was supplied: not None and not the empty default
Explicit(vintage) == ~IsNone(vintage) /\ Val(vintage) # 0

\* the text has a run of four digits
HasYear(s) == \E i \in 1..Len(s) : i + 3 <= Len(s) /\ \A j \in 0..3 : IsDigit(s[i + j])

\* the first run of four digits of a text that has one
FirstYear(s) ==
    LET i == CHOOSE k \in 1..Len(s) :
                /\ k + 3 <= Len(s) /\ \A j \in 0..3 : IsDigit(s[k + j])
                /\ \A m \in 1..(k - 1) : ~(\A j \in 0..3 : IsDigit(s[m + j]))
    IN SubSeq(s, i, i + 3)

\* the vintage the url is to carry, <<>> when none is known
KnownVintage(keyword, vintage) ==
    IF Explicit(vintage) THEN StrOfNat(Val(vintage))
    ELSE IF HasYear(keyword) THEN FirstYear(keyword)
    ELSE <<>>

\* the position of the first "/" after the prefix
NameEnd(url) == CHOOSE i \in 2..Len(url) : url[i] = "/" /\ \A k \in 2..(i - 1) : url[k] # "/"

\* the name segment of the url and what follows its "/"
NameSegment(url) == SubSeq(url, 2, NameEnd(url) - 1)

AfterName(url) == SubSeq(url, NameEnd(url) + 1, Len(url))

\* the digits of a text, in order
DigitsOf(s) == SelectSeq(s, IsDigit)

\* C15: the year is taken out of the query text and used as the vintage
\* only when no vintage is supplied, and with a supplied vintage the query's
\* digits stay in the name segment; a known vintage follows the name segment
\* as '<vintage>/'; the suffix '<country>/-/ndbipe?...' is there exactly
\* when auctions are not included; 'Chateau Lafite (2015)' for 'usa' gives
\* '/2015/usa/-/ndbipe?...'
C15_ComposeSearchUrl ==
    Composed =>
        LET known == KnownVintage(pure.keyword, pure.vintage)
        IN /\ pure.url[1] = UrlPrefix
           /\ Explicit(pure.vintage) =>
                 DigitsOf(NameSegment(pure.url)) = DigitsOf(pure.keyword)
           /\ (~Explicit(pure.vintage) /\ HasYear(pure.keyword)) =>
                 ~HasYear(NameSegment(pure.url))
           /\ AfterName(pure.url) =
                 (IF known # <<>> THEN known \o <<"/">> ELSE <<>>)
                 \o (IF ~pure.include_auction
                     THEN pure.country \o <<UrlSuffix>> ELSE <<>>)
           /\ (/\ pure.keyword = LafiteQuery /\ IsNone(pure.vintage)
               /\ pure.country = Country /\ ~pure.include_auction) =>
                 pure.url = <<UrlPrefix, "C", "h", "a^", "t", "e", "a", "u", "-",
                              "L", "a", "f", "i", "t", "e", "/", "2", "0", "1", "5",
                              "/", "u", "s", "a", UrlSuffix>>

\* the Lafite query was composed with no vintage argument
C15_Witness ==
    /\ Composed
    /\ pure.keyword = LafiteQuery /\ IsNone(pure.vintage)
    /\ pure.country = Country /\ ~pure.include_auction
    /\ AfterName(pure.url) = <<"2", "0", "1", "5", "/", "u", "s", "a", UrlSuffix>>

----------------------------------------------------------------------------
(* Offers *)

\* the page was parsed and parse_offers_html went through the cards
OffersParsed ==
    /\ pure.op = "parse_wine_searcher_html" /\ pure.done
    /\ pure.block.present /\ ~pure.block.expanded
    /\ ~Val(pure.parsed).raised

\* the card has a price text and the text has no currency symbol
MissingSymbol(card) ==
    card.section /\ ~IsNone(card.main) /\ "$" \notin Range(Val(card.main))

\* the text is a number once '$' and ',' are taken out
Numeric(text) ==
    LET t == Strip(SelectSeq(text, LAMBDA c : c \notin {"$", ","}))
        digits == SelectSeq(t, LAMBDA c : c # ".")
    IN /\ digits # <<>>
       /\ \A i \in 1..Len(digits) : IsDigit(digits[i])
       /\ Len(t) - Len(digits) <= 1

\* the card cannot be read: no price section, no main price, a main price or
\* a unit price (the text before its '/') that is neither empty nor a number
Unreadable(card) ==
    \/ ~card.section
    \/ IsNone(card.main)
    \/ Val(card.main) # <<>> /\ ~Numeric(Val(card.main))
    \/ /\ ~IsNone(card.secondary)
       /\ Val(card.secondary) # <<>>
       /\ ~Numeric(BeforeSlash(Val(card.secondary)))

\* C16 (as stated): every card whose price text is missing the currency
\* symbol is skipped, and the number of offers is the number of cards minus
\* the number of skipped cards
C16_SymbolLessCardSkipped ==
    OffersParsed =>
        Len(Val(pure.parsed).offers)
            <= Len(pure.block.cards)
               - Cardinality({i \in 1..Len(pure.block.cards) :
                                MissingSymbol(pure.block.cards[i])})

\* C16 (amended): a card is skipped exactly when it cannot be read; a card
\* whose price text is a number without the currency symbol is kept with
\* that number as its price; the offers are those of the other cards in card
\* order, their number the number of cards minus the number of skipped cards
C16_UnreadableCardSkipped ==
    OffersParsed =>
        LET cards == pure.block.cards
            kept == SelectSeq(cards, LAMBDA c : ~Unreadable(c))
            offers == Val(pure.parsed).offers
        IN /\ Len(offers) = Len(cards)
                             - Cardinality({i \in 1..Len(cards) : Unreadable(cards[i])})
           /\ Len(offers) = Len(kept)
           /\ \A k \in 1..Len(offers) :
                 offers[k].price =
                    IF Val(kept[k].main) = <<>> THEN NoneV
                    ELSE Some(FloatTenths(SelectSeq(Val(kept[k].main),
                                                    LAMBDA c : c \notin {"$", ","})))

\* a card priced '20.0' without the symbol was kept at 20.0 and a card
\* priced in another currency was skipped
C16_Witness ==
    /\ OffersParsed
    /\ Len(pure.block.cards) = 2
    /\ pure.block.cards[1].main = Some(<<"2", "0", ".", "0">>)
    /\ pure.block.cards[2].main = Some(<<"E", "9">>)
    /\ Len(Val(pure.parsed).offers) = 1
    /\ Val(pure.parsed).offers[1].price = Some(200)

\* the unit prices of the parsed offers that have one, in order
UnitPrices ==
    LET offers == Val(pure.parsed).offers
        with == SelectSeq(offers, LAMBDA o : ~IsNone(o.unit_price))
    IN [k \in 1..Len(with) |-> Val(with[k].unit_price)]

\* C17: the snapshot's minimum unit price is nil when no parsed offer has a
\* unit price and otherwise the smallest unit price among the parsed
\* offers: 15.5 for the unit prices [20.0, 15.5, 30.0]
C17_MinUnitPrice ==
    (pure.op = "parse_wine_searcher_html" /\ pure.done /\ ~IsNone(pure.snapshot)) =>
        LET min_price == Val(pure.snapshot).min_price
        IN /\ UnitPrices = <<>> => IsNone(min_price)
           /\ UnitPrices # <<>> =>
                 /\ ~IsNone(min_price)
                 /\ Val(min_price) \in Range(UnitPrices)
                 /\ \A k \in 1..Len(UnitPrices) : Val(min_price) <= UnitPrices[k]
           /\ UnitPrices = <<200, 155, 300>> => min_price = Some(155)

\* the parsed offers have the unit prices 20.0, 15.5 and 30.0
C17_Witness ==
    /\ pure.op = "parse_wine_searcher_html" /\ pure.done
    /\ ~IsNone(pure.snapshot)
    /\ UnitPrices = <<200, 155, 300>>
    /\ Val(pure.snapshot).min_price = Some(155)

\* a block whose offers have no unit price gives no minimum
C17_NoUnitPrice ==
    /\ OffersParsed /\ ~IsNone(pure.snapshot)
    /\ Len(Val(pure.parsed).offers) > 0
    /\ UnitPrices = <<>>
    /\ IsNone(Val(pure.snapshot).min_price)

----------------------------------------------------------------------------
(* update_wine *)

\* C18: update_wine on an id no row has returns None and changes no row; on
\* an existing id it changes only the fields set in the update and
\* updated_at, in that row only, and returns the row; a get_wine that
\* follows returns the updated values
C18_UpdateTouchesOnlySetFields ==
    [][/\ last'.op = "update_wine" =>
            LET wine_id == Val(last'.arg)
                wine_data == pure'.wine_data
            IN IF wine_id \notin Ids(wines)
               THEN IsNone(last'.result) /\ wines' = wines
               ELSE /\ Len(wines') = Len(wines)
                    /\ \A i \in Ids(wines) : i # wine_id => wines'[i] = wines[i]
                    /\ wines'[wine_id].id = wines[wine_id].id
                    /\ \A f \in DOMAIN wine_data : wines'[wine_id][f] = wine_data[f]
                    /\ \A f \in DOMAIN wines[wine_id] \ (DOMAIN wine_data
                                                           \cup {"updated_at"}) :
                          wines'[wine_id][f] = wines[wine_id][f]
                    /\ last'.result = Some(wines'[wine_id])
       /\ (/\ last.op = "update_wine" /\ ~IsNone(last.result)
           /\ last'.op = "get_wine" /\ last'.arg = last.arg) =>
             /\ last'.result = last.result
             /\ \A f \in DOMAIN pure.wine_data :
                   Val(last'.result)[f] = pure.wine_data[f]]_vars

\* an update that set the name only was followed by a get_wine of the row:
\* new name, old vintage, winery and alias list
C18_Witness ==
    /\ last.op = "get_wine"
    /\ last.arg = Some(1)
    /\ Val(last.result).name = <<"n", "2">>
    /\ Val(last.result).vintage = Some(2021)
    /\ Val(last.result).winery = Some(<<"o">>)
    /\ Val(last.result).name_alias = Some(<< <<"q">> >>)
    /\ Val(last.result).updated_at > 0

----------------------------------------------------------------------------
(* search_wine: the order of its steps *)

IsPrefix(s, t) == Len(s) <= Len(t) /\ SubSeq(t, 1, Len(s)) = s

\* the three courses a call can take, as the steps completed in order
StepCourses ==
    { <<"local">>,
      <<"local", "fetch", "persist", "fuse">>,
      <<"local", "fetch", "placeholder">> }

\* the step a call is at or has completed
Started(step) == run.pc = step \/ step \in Range(run.trace)

\* C19: within one search_wine call the steps run one after another and never
\* go back: the steps completed are always the beginning of one of the three
\* courses; fetch_wine starts only after the local lookup found nothing;
\* save_wine_searcher and the fusion start only after fetch_wine returned a
\* snapshot; the placeholder is created only after fetch_wine returned None;
\* and a local hit ends the call with no fetch_wine and with both tables as
\* they were when the call began.
C19_StepsInOrder ==
    LET local_hits == search_wine_from_db(run.wines0, run.name, run.vintage)
    IN /\ \E c \in StepCourses : IsPrefix(run.trace, c)
       /\ run.pc = "done" => run.trace \in StepCourses
       /\ Started("fetch") =>
             /\ "local" \in Range(run.trace)
             /\ local_hits = {}
       /\ (Started("persist") \/ Started("fuse")) =>
             /\ "fetch" \in Range(run.trace)
             /\ ~IsNone(run.fetch) /\ ~IsNone(Val(run.fetch).wine)
       /\ Started("fuse") => "persist" \in Range(run.trace)
       /\ Started("placeholder") =>
             /\ "fetch" \in Range(run.trace)
             /\ ~IsNone(run.fetch) /\ IsNone(Val(run.fetch).wine)
       /\ ("local" \in Range(run.trace) /\ local_hits # {}) =>
             /\ run.pc = "done" /\ run.trace = <<"local">>
             /\ IsNone(run.fetch)
             /\ wines = run.wines0 /\ ws_wines = run.ws_wines0
             /\ last.op = "search_wine" => last.local_hit /\ ~last.fetched

\* a call that went through all four steps, and before it a call that ended
\* at the local lookup
C19_Witness ==
    /\ run.pc = "done"
    /\ run.trace = <<"local", "fetch", "persist", "fuse">>
    /\ Len(run.wines0) > 0

\* a call answered by the local lookup alone
C19_WitnessLocalHit ==
    /\ run.pc = "done"
    /\ run.trace = <<"local">>
    /\ search_wine_from_db(run.wines0, run.name, run.vintage) # {}

\* a call that ended with the placeholder
C19_WitnessPlaceholder ==
    /\ run.pc = "done"
    /\ run.trace = <<"local", "fetch", "placeholder">>

----------------------------------------------------------------------------
(* search_wine: alias bookkeeping *)

\* how often v occurs in lst
Occurrences(lst, v) == Cardinality({i \in 1..Len(lst) : lst[i] = v})

ListOf(name_alias) == IF IsNone(name_alias) THEN <<>> ELSE Val(name_alias)

\* the call that has just returned is a search_wine that ended at a record
\* found or created from a snapshot
EndedAtSnapshotRecord(call) ==
    /\ call.op = "search_wine"
    /\ ~IsNone(call.snapshot)
    /\ ~call.raised
    /\ ~IsNone(call.result)

\* C20: when search_wine(query, vintage) ends at a record found or created
\* from a snapshot and the record's name differs from query, the stored row
\* holds query in its alias list exactly once afterwards: a row that was
\* already there keeps its list when query is in it and has query appended at
\* the end otherwise, all other rows untouched; and the local lookup for
\* (query, None) then finds a row, so a search_wine(query, None) made next is
\* answered locally.
C20_QueryBecomesAlias ==
    [][ LET call == last'
            id == Val(call.result).id
            query == call.name
        IN (/\ last' # last \/ wines' # wines
            /\ EndedAtSnapshotRecord(call)
            /\ Val(call.result).name # query)
           => /\ id \in Ids(wines')
              /\ ~IsNone(wines'[id].name_alias)
              /\ Occurrences(Val(wines'[id].name_alias), query) = 1
              /\ ~call.inserted =>
                    /\ id \in Ids(wines)
                    /\ Len(wines') = Len(wines)
                    /\ \A i \in Ids(wines) : i # id => wines'[i] = wines[i]
                    /\ IF query \in Range(ListOf(wines[id].name_alias))
                       THEN wines' = wines
                       ELSE wines' = [wines EXCEPT ![id].name_alias =
                                        Some(Append(ListOf(wines[id].name_alias),
                                                    query))]
              /\ search_wine_from_db(wines', query, NoneV) # {}
      ]_vars

\* C20, the later call: a search_wine(query, None) that comes right after a
\* search_wine(query, ...) which ended at a snapshot's record under another
\* name is answered by the local lookup, with no fetch and no write
C20_NextCallIsLocal ==
    [][ (/\ EndedAtSnapshotRecord(last)
         /\ Val(last.result).name # last.name
         /\ last'.op = "search_wine"
         /\ last'.name = last.name
         /\ last'.vintage = NoneV
         /\ last' # last \/ wines' # wines)
        => /\ last'.local_hit
           /\ ~last'.fetched
           /\ wines' = wines /\ ws_wines' = ws_wines
      ]_vars

\* a call that found the snapshot's row already in the table, under another
\* name and without the query in its alias list, and left the query in it
C20_Witness ==
    /\ EndedAtSnapshotRecord(last)
    /\ ~last.inserted
    /\ Val(last.result).name # last.name
    /\ Occurrences(ListOf(wines[Val(last.result).id].name_alias), last.name) = 1
    /\ ListOf(Val(last.result).name_alias) = <<>>

\* a call that created the record with the query as its alias
C20_WitnessCreated ==
    /\ EndedAtSnapshotRecord(last)
    /\ last.inserted
    /\ Val(last.result).name # last.name
    /\ wines[Val(last.result).id].name_alias = Some(<<last.name>>)

\* a local hit by alias right after the call that stored the alias
C20_WitnessLater ==
    /\ last.op = "search_wine"
    /\ last.local_hit
    /\ last.vintage = NoneV
    /\ Val(last.result).name # last.name
    /\ last.name \in Range(ListOf(Val(last.result).name_alias))

----------------------------------------------------------------------------
(* search_wine: the record returned *)

\* the call that has just returned is a search_wine that went past the local
\* lookup and returned a record
ReturnedFromFusion(call) ==
    /\ call.op = "search_wine"
    /\ call.fetched
    /\ ~call.raised
    /\ ~IsNone(call.result)

\* C21: the record search_wine returns after the fetch equals the row as it
\* is stored when the call ends, alias list included, for a record just
\* created and for an existing record found by wine_searcher_id (also one
\* that had no alias list before).
C21_ReturnedIsPersisted ==
    ReturnedFromFusion(last) =>
        /\ Val(last.result).id \in Ids(wines)
        /\ wines[Val(last.result).id] = Val(last.result)

\* the part the code keeps: a record the call created is returned as stored
C21_CreatedIsPersisted ==
    (ReturnedFromFusion(last) /\ last.inserted) =>
        wines[Val(last.result).id] = Val(last.result)

----------------------------------------------------------------------------
(* save_wine_searcher: the offers stored for a wine *)

\* the rows the offers table holds for a wine, in table order
OffersOf(tbl, wine_id) == SelectSeq(tbl, LAMBDA r : r.wine_id = wine_id)

\* C22: after save_wine_searcher has stored a snapshot, the rows the offers
\* table holds for the snapshot's id are the offers of that snapshot: a second
\* save for the same wine replaces the rows of the first.
C22_StoredOffersAreLatest ==
    (last.op = "save_wine_searcher" /\ ~last.raised) =>
        OffersOf(offers_tbl, Val(last.snapshot).id) = OfferData(Val(last.snapshot))

\* what the code keeps: every offer of the snapshot just saved is stored for
\* its wine, and no save removes a row
C22_OffersOnlyAdded ==
    [][ /\ \A i \in 1..Len(offers_tbl) : offers_tbl'[i] = offers_tbl[i]
        /\ (last'.op = "save_wine_searcher" /\ ~last'.raised) =>
             Range(OfferData(Val(last'.snapshot))) \subseteq
                Range(OffersOf(offers_tbl', Val(last'.snapshot).id))
      ]_vars

----------------------------------------------------------------------------
(* batch fetch: the limiter *)

InGather == run.pc = "gather"

\* C23: while a batch fetch waits in gather, the page fetches in flight are
\* never more than the limiter width - min(10, urls to fetch) for the direct
\* transport, 5 for the crawling proxy; every slot not held by a fetch in
\* flight is free, also after fetches that ended in an error, so a waiting
\* fetch can always start or some fetch is still running; and gather returns
\* only when every fetch has finished.
C23_LimiterBoundsInFlight ==
    /\ InGather =>
         /\ Cardinality(run.entered) <=
               (IF run.use_crawler THEN 5 ELSE IF run.n < 10 THEN run.n ELSE 10)
         /\ run.value >= 0
         /\ run.value + Cardinality(run.entered) = run.width
         /\ Waiting(run) # {} => (run.value > 0 \/ run.entered # {})
    /\ (run.pc = "done") =>
         /\ run.finished = 1..run.n
         /\ run.entered = {}

\* C23, the waiting fetches: with the event loop running every task that can
\* step, a batch that has reached gather gets to the end of it
C23_WaitingFetchesRun == InGather ~> (run.pc = "done")

\* a batch over the proxy with more urls than slots: the limiter is full, a
\* fetch has ended in an error and a fetch that had to wait entered after it
C23_Witness ==
    /\ InGather
    /\ run.use_crawler
    /\ run.n > run.width
    /\ run.value = 0
    /\ run.errored
    /\ run.after_error

\* the same with the direct transport: eleven urls, ten slots
C23_WitnessDirect ==
    /\ InGather
    /\ ~run.use_crawler
    /\ run.n > 10
    /\ run.value = 0
    /\ Cardinality(run.entered) = 10
    /\ run.after_error

----------------------------------------------------------------------------
(* The page cache: entries are written once *)

\* how many save_to_cache calls of the batch just made wrote the url
WritesTo(b, url) == Cardinality({k \in 1..Len(b.writes) : b.writes[k].url = url})

\* the step is a batch_fetch_html call
IsBatchStep == batch'.done /\ last' = NoCall

\* C24: a page-cache entry is written once per url and never changed: an
\* entry that exists before a fetch_html or batch_fetch_html call is not
\* written by the call and holds the same markup after it, and a call writes
\* a url that had no entry at most once, also a batch naming the url twice.
C24_CacheEntryWrittenOnce ==
    [][ \A u \in Urls :
          /\ ~IsNone(ws_cache[u]) =>
                /\ ws_cache'[u] = ws_cache[u]
                /\ IsBatchStep => WritesTo(batch', u) = 0
          /\ IsBatchStep => WritesTo(batch', u) <= 1
      ]_vars

\* what the code keeps: an entry that exists when a call starts is neither
\* written nor changed by the call, whatever the call's transport
C24_ExistingEntryKept ==
    [][ \A u \in Urls :
          ~IsNone(ws_cache[u]) =>
                /\ ws_cache'[u] = ws_cache[u]
                /\ IsBatchStep => WritesTo(batch', u) = 0
                /\ (last'.op = "fetch_html" /\ last'.url = Some(u) /\ last' # last) =>
                      last'.cache_hit /\ last'.net = 0
      ]_vars

----------------------------------------------------------------------------
(* parse_offers_html: a card that fails *)

\* the number a price text stands for, None for an empty text
PriceIn(text) ==
    IF text = <<>> THEN NoneV
    ELSE Some(FloatTenths(SelectSeq(text, LAMBDA c : c \notin {"$", ","})))

\* the offer a readable card gives, every field filled from the card
WholeOffer(card) ==
    [price |-> PriceIn(Val(card.main)),
     unit_price |-> IF IsNone(card.secondary) THEN PriceIn(Val(card.main))
                    ELSE IF Val(card.secondary) = <<>> THEN NoneV
                    ELSE PriceIn(BeforeSlash(Val(card.secondary)))]

\* C25: a card that fails in a sub-extraction adds nothing to the offer list
\* and does not end the parse: the list holds exactly the whole offers of
\* the cards that can be read, in page order - every readable card after a
\* failing one included, and no offer built from part of a failing card.
C25_FailedCardAddsNothing ==
    OffersParsed =>
        LET cards == pure.block.cards
            offers == Val(pure.parsed).offers
            readable == {i \in 1..Len(cards) : ~Unreadable(cards[i])}
            \* the position in the offer list of the readable card i
            at == [i \in readable |-> Cardinality({j \in readable : j <= i})]
        IN /\ Len(offers) = Cardinality(readable)
           /\ \A i \in readable : offers[at[i]] = WholeOffer(cards[i])
           /\ \A i \in readable, j \in readable : i < j => at[i] < at[j]

\* a card whose main price parses and whose unit price does not, then a
\* card that parses: one offer, that of the second card
C25_Witness ==
    /\ OffersParsed
    /\ Len(pure.block.cards) = 3
    /\ pure.block.cards[1].main = Some(<<"$", "3", "0">>)
    /\ pure.block.cards[1].secondary = Some(<<"/", "b">>)
    /\ ~pure.block.cards[2].section
    /\ pure.block.cards[3].main = Some(<<"$", "2", "0", ".", "0">>)
    /\ Val(pure.parsed).offers = <<[price |-> Some(200), unit_price |-> Some(200)]>>

----------------------------------------------------------------------------
(* fetch_wine: the two transports *)

\* what fetch_wine gives for a query in the present state of the caches when
\* the site (asked directly, or by the proxy) answers with exchange x
FetchOne(q, use_crawler, x) ==
    fetch_wine(ws_cache, fc_cache, api_key, q[1], q[2], Country, use_crawler, TRUE, x)

\* C26: with the proxy's API key set, fetch_wine gives the same outcome over
\* the direct GET and over the crawling proxy when the site serves the same
\* page to both: markup reaches the parser over one transport exactly when
\* it does over the other, and the snapshot is the same.
C26_TransportsAgree ==
    api_key =>
        \A q \in Queries :
        \A x \in Exchanges(compose_search_url(q[1], q[2], Country, FALSE)) :
            /\ Truthy(FetchOne(q, TRUE, x).html) = Truthy(FetchOne(q, FALSE, x).html)
            /\ FetchOne(q, TRUE, x).wine = FetchOne(q, FALSE, x).wine

\* what the code keeps: the transports agree where no markup is to be had
\* (a cache hit aside): a failed request gives None over both
C26_FailuresAgree ==
    api_key =>
        \A q \in Queries :
            /\ IsNone(FetchOne(q, TRUE, NoExchange).wine)
                  = IsNone(FetchOne(q, FALSE, NoExchange).wine)
            /\ FetchOne(q, TRUE, NoExchange).html = FetchOne(q, FALSE, NoExchange).html

----------------------------------------------------------------------------
(* Two search_wine calls of one gather for the same name *)

\* both tasks of a gather have returned
RaceDone ==
    /\ run.pc \in {"race", "done"}
    /\ \A t \in Tasks : run.tasks[t].pc = "done"

\* both tasks missed locally and went on with the same snapshot, which fuses
SameSnapshot ==
    /\ RaceDone
    /\ \A t \in Tasks : /\ run.tasks[t].missed
                        /\ ~IsNone(run.tasks[t].call.snapshot)
                        /\ ~run.tasks[t].call.raised
    /\ Val(run.tasks[1].call.snapshot).id = Val(run.tasks[2].call.snapshot).id

\* rows carrying the external id `id`
RowsOfSnapshot(id) ==
    {i \in Ids(wines) : wines[i].wine_searcher_id = Some(id)}

BothCameBackEmpty ==
    /\ RaceDone
    /\ \A t \in Tasks : /\ run.tasks[t].missed
                        /\ run.tasks[t].call.net = 1
                        /\ IsNone(run.tasks[t].call.snapshot)

\* rows that are the placeholder of the gather's query
PlaceholderRows ==
    {i \in Ids(wines) : /\ wines[i].name = run.name
                        /\ wines[i].vintage = run.vintage
                        /\ IsNone(wines[i].wine_searcher_id)}

\* C28: two concurrent search_wine calls for the same new name that both
\* get nothing from the external source each create a placeholder: both
\* insert, and the table holds two records with the query's name and vintage
\* and no external id, which is why no lookup by external id finds the first.
C28_TwoPlaceholders ==
    (BothCameBackEmpty /\ run.wines0 = <<>>)
        => /\ \A t \in Tasks : run.tasks[t].call.inserted
           /\ Val(run.tasks[1].call.result).id # Val(run.tasks[2].call.result).id
           /\ Cardinality(PlaceholderRows) = 2

C28_Witness ==
    /\ BothCameBackEmpty
    /\ run.wines0 = <<>>
    /\ Cardinality(PlaceholderRows) = 2
    /\ \A t \in Tasks : run.tasks[t].call.inserted

----------------------------------------------------------------------------
(* search_wine on a snapshot whose id a record already has *)

\* the fields of a wines row other than the alias list
FactFields == {"id", "name", "vintage", "winery", "wine_searcher_id"}

\* the step is a search_wine that went past the local lookup with a snapshot
\* whose id some row already carried
FoundByExternalId ==
    /\ last'.op = "search_wine"
    /\ ~last'.local_hit
    /\ ~IsNone(last'.snapshot)
    /\ \E i \in Ids(wines) : wines[i].wine_searcher_id = Some(Val(last'.snapshot).id)

\* C29: when the snapshot's external id already belongs to a catalog record,
\* search_wine creates no record and changes nothing but the alias list of a
\* record carrying that id: every row keeps its id, name, vintage, winery and
\* wine_searcher_id, rows with another external id are untouched, and the
\* record returned is one that carried the id.
C29_ExistingRecordKeepsFacts ==
    [][FoundByExternalId =>
         /\ Len(wines') = Len(wines)
         /\ \A i \in Ids(wines) :
              /\ \A f \in FactFields : wines'[i][f] = wines[i][f]
              /\ wines[i].wine_searcher_id # Some(Val(last'.snapshot).id)
                     => wines'[i] = wines[i]
         /\ ~last'.raised =>
              wines[Val(last'.result).id].wine_searcher_id
                  = Some(Val(last'.snapshot).id)]_vars

\* a search_wine call ended at an existing record found by the snapshot's id
\* whose name and winery differ from the snapshot's, and gave it the alias
C29_Witness ==
    /\ last.op = "search_wine"
    /\ ~last.local_hit
    /\ ~IsNone(last.snapshot)
    /\ ~last.raised
    /\ ~last.inserted
    /\ LET row == wines[Val(last.result).id]
       IN /\ row.wine_searcher_id = Some(Val(last.snapshot).id)
          /\ row.name # ConvertName(Val(last.snapshot))
          /\ row.winery # Val(last.snapshot).producer
          /\ ~IsNone(row.name_alias)
          /\ last.name \in Range(Val(row.name_alias))

----------------------------------------------------------------------------
(* Fusion: the vintage in the display name *)

\* a page was parsed and its snapshot converted
Converted == pure.op = "convert_wine_searcher_to_wine" /\ pure.done

\* C30 as stated: for a non-vintage snapshot (vintage is the sentinel 1) the
\* catalog display name equals the snapshot's name unchanged, whatever digits
\* the name contains.
C30_NonVintageNameKept ==
    (Converted /\ Val(pure.snapshot).vintage = 1)
        => Val(pure.wine).name = Val(Val(pure.snapshot).name)

\* what holds of the conversion: the name is changed only when the decimal
\* text of the snapshot's vintage occurs in it, and then every occurrence of
\* that text is gone from the name - for the sentinel 1 as for a real year
C30_VintageTextRemoved ==
    Converted =>
        LET ws == Val(pure.snapshot)
            v == StrOfNat(ws.vintage)
        IN /\ ~Contains(Val(ws.name), v) => Val(pure.wine).name = Val(ws.name)
           /\ Contains(Val(ws.name), v) => ~Contains(Val(pure.wine).name, v)

\* a snapshot of a real vintage lost the year from its name
C30_WitnessRealVintage ==
    /\ Converted
    /\ Val(pure.snapshot).vintage = 2018
    /\ Val(pure.snapshot).name = Some(<<"2", "0", "1", "8", " ", "A">>)
    /\ Val(pure.wine).name = <<"A">>

====
